---------------------------- MODULE Spec2Model ----------------------------
(***************************************************************************)
(* Discrete-event model of the OpenCLSim / dores installation simulations. *)
(*                                                                         *)
(* Spec        dores installation vessels (load, sail, install) sharing a  *)
(*             port berth, a port stock, their decks and the wind farm.    *)
(* SpecFair    Spec under weak fairness of the scheduler's next step.      *)
(* SpecLog     Spec with the vessels' event log in the state.              *)
(* SpecShift   concurrent OpenCLSim ShiftAmount activities and their       *)
(*             multi-party reservation protocol.                           *)
(* SpecYard    SpecShift with the logs of the activities and sites, a      *)
(*             weather delay before the start, and multi-permit sites.     *)
(* SpecDock    SpecYard with one more activity and a third site.           *)
(* SpecRepeat  ShiftAmount activities between two sites, executed again    *)
(*             and again as the sub-activities of Repeat/While loops.      *)
(* SpecRestart the same cycles run through start_simulation and rebuilt   *)
(*             by restart_simulation.                                      *)
(* SpecSim     Spec and SpecShift (container and resource invariants).     *)
(* SpecWhile   a While/Repeat activity looping over its sub-activities,    *)
(*             with its condition event and the scheduler's event order.   *)
(* SpecContainer processes issuing get and put requests of any amount on   *)
(*             one container (Processor.check_possible_shift).             *)
(* SpecWeather an activity behind the weather gate: find_window over a     *)
(*             boolean limit series, then the wait it asks for.            *)
(* SpecRegistry simulations created one after another over the class-level *)
(*             list InstallationVessel.instances.                          *)
(* SpecTwin    digital-twin Activities moving amounts from one origin to   *)
(*             one destination with one mover.                             *)
(*                                                                         *)
(* Processes are generators: one action of the model is one resumption of  *)
(* a process, from the yield it was suspended at to the next yield.        *)
(* Processes that are runnable at the same virtual time may be resumed in  *)
(* any order; the clock moves only when nothing is runnable at `now`.      *)
(***************************************************************************)
EXTENDS Integers, Sequences, FiniteSets, TLC

(* ------------------------------ bounds --------------------------------- *)
MaxVessels == 3
MaxLogged == 2
MaxSimulations == 3
MaxTwins == 2
MaxHold == 2
MaxPolls == 2
MaxFleet == 2
MaxLoggedStock == 2
MaxStock == 3
MaxDeck == 2
MaxBerths == 2
MaxActs == 2
MaxYardActs == 2
MaxDockActs == 3
MaxWait == 1
MaxPermits == 2
NumSites == 3
SiteCap == 2
ShiftDuration == 1
MaxIterations == 3
MaxSubs == 2
MaxSubDuration == 1
MaxSamples == 6
SampleStep == 2
MaxDuration == 4
MaxClients == 2
MaxCapacity == 5
MaxAmount == 3
MaxRequests == 3
MaxSleeps == 1
MaxRuns == 2
MaxUserAmount == 2
MaxRestarts == 1
MaxEpoch == 3

(* ------------------------- program constants --------------------------- *)
NavigateDuration == 3600
LoadDuration == 3600
InstallDuration == 3600

VARIABLES
    now,      \* env.now, the virtual clock
    pc,       \* per process: the yield it is suspended at
    wake,     \* per process: time at which its pending Timeout fires, or -1
    evt,      \* per process: state of the container/resource event it yielded
    level,    \* per container: Container.level
    cap,      \* per container: Container.capacity
    getq,     \* per container: pending (untriggered) get requests, FIFO
    putq,     \* per container: pending (untriggered) put requests, FIFO
    users,    \* per resource: the requests that hold a permit
    rqueue,   \* per resource: pending requests, FIFO
    rcap,     \* per resource: Resource.capacity
    act,      \* per ShiftAmount activity: its attributes (self.origin, ...)
    log,      \* EventLog.log: one list per column
    loop,     \* the While activity: its position, ii, condition event, ...
    queue,    \* the While activity's environment: scheduled events, in order
    gate,     \* the weather-gated activity: series, duration, delay, ...
    run       \* the run entry point: running, or the exception it raised

\* The variables of the While and weather models, untouched by the others.
others == <<loop, queue, gate, run>>

\* The variables of the vessel and ShiftAmount models.
simVars ==
    <<pc, wake, evt, level, cap, getq, putq, users, rqueue, rcap, act, log>>

vars == <<now, simVars, others>>

(* ------------------------------ helpers -------------------------------- *)
Min(S) == CHOOSE x \in S : \A y \in S : x <= y

Abs(x) == IF x < 0 THEN 0 - x ELSE x

Procs == DOMAIN pc

\* The log is write-only: no process reads it back.  Where no property
\* speaks of the log, the runs are explored with the log left out of the
\* state.
Unobserved == [Timestamp |-> "unobserved"]

\* EventLog.__init__: an empty list for every column.
EmptyLog ==
    [Timestamp |-> << >>, ID |-> << >>, ActivityDescription |-> << >>,
     ActivityState |-> << >>, ComponentsInStock |-> << >>,
     ComponentsOnboard |-> << >>, ComponentsInstalled |-> << >>]

\* The shared state of all containers, resources and events, threaded through
\* the statements of one step.
Cur ==
    [level |-> level, getq |-> getq, putq |-> putq, evt |-> evt,
     users |-> users, rqueue |-> rqueue, log |-> log]

\* A step writes the shared state S back.
Commit(S) ==
    /\ level' = S.level
    /\ getq' = S.getq
    /\ putq' = S.putq
    /\ evt' = S.evt
    /\ users' = S.users
    /\ rqueue' = S.rqueue
    /\ log' = S.log

\* The process p has been resumed: the event it waited for is consumed.
Resumed(p) == [Cur EXCEPT !.evt[p] = "none"]

(* ----------------------- simpy.Container semantics --------------------- *)
\* A get that is served as soon as the container holds anything.
CanGetAny(lv, amt) == lv > 0

\* May a get of amount `amt` be served at level `lv`?
CanGet(lv, amt) == lv >= amt

\* May a put of amount `amt` be served at level `lv` under capacity c?
CanPutAlways(lv, c, amt) == TRUE
CanPut(lv, c, amt) == c - lv >= amt

\* Container._trigger_get: serve the get queue of container c strictly from
\* its head, stopping at the first request that cannot be served.
RECURSIVE TriggerGet(_, _)
TriggerGet(S, c) ==
    IF S.getq[c] = << >> THEN S
    ELSE LET r == Head(S.getq[c]) IN
         IF CanGet(S.level[c], r.amount)
         THEN TriggerGet([S EXCEPT !.level[c] = @ - r.amount,
                                   !.getq[c] = Tail(@),
                                   !.evt[r.pid] = "triggered"], c)
         ELSE S

\* Container._trigger_put: the same for the put queue.
RECURSIVE TriggerPut(_, _)
TriggerPut(S, c) ==
    IF S.putq[c] = << >> THEN S
    ELSE LET r == Head(S.putq[c]) IN
         IF CanPut(S.level[c], cap[c], r.amount)
         THEN TriggerPut([S EXCEPT !.level[c] = @ + r.amount,
                                   !.putq[c] = Tail(@),
                                   !.evt[r.pid] = "triggered"], c)
         ELSE S

\* A get that is served at once whenever the level allows it, whoever waits.
DoGetJumpsQueue(S, c, p, amt) ==
    IF CanGet(S.level[c], amt)
    THEN [S EXCEPT !.level[c] = @ - amt, !.evt[p] = "triggered"]
    ELSE [S EXCEPT !.getq[c] = Append(@, [pid |-> p, amount |-> amt]),
                   !.evt[p] = "pending"]

\* container.get(amt) issued by process p: the request joins the queue and
\* the queue is served at once; p stays "pending" until its turn comes.
DoGet(S, c, p, amt) ==
    TriggerGet([S EXCEPT !.getq[c] = Append(@, [pid |-> p, amount |-> amt]),
                         !.evt[p] = "pending"], c)

\* container.put(amt) issued by process p.
DoPut(S, c, p, amt) ==
    TriggerPut([S EXCEPT !.putq[c] = Append(@, [pid |-> p, amount |-> amt]),
                         !.evt[p] = "pending"], c)

(* ----------------------- simpy.Resource semantics ---------------------- *)
\* May a further permit of resource r be granted when `held` hold one?
HasFreePermitAlways(r, held) == TRUE
HasFreePermit(r, held) == Cardinality(held) < rcap[r]

\* resource.request() by p: granted at once when a permit is free and nobody
\* queues, else appended to the FIFO queue.
Request(S, r, p) ==
    IF S.rqueue[r] = << >> /\ HasFreePermit(r, S.users[r])
    THEN [S EXCEPT !.users[r] = @ \cup {p}, !.evt[p] = "triggered"]
    ELSE [S EXCEPT !.rqueue[r] = Append(@, p), !.evt[p] = "pending"]

\* A release that hands the permit to the newest request of the queue.
ReleaseToNewest(S, r, p) ==
    IF S.rqueue[r] # << >> /\ HasFreePermit(r, S.users[r] \ {p})
    THEN LET q == S.rqueue[r] IN
         [S EXCEPT !.users[r] = (@ \ {p}) \cup {q[Len(q)]},
                   !.rqueue[r] = SubSeq(q, 1, Len(q) - 1),
                   !.evt[q[Len(q)]] = "triggered"]
    ELSE [S EXCEPT !.users[r] = @ \ {p}]

\* resource.release(request of p): the permit returns and the head of the
\* queue, if any, takes it.
Release(S, r, p) ==
    IF S.rqueue[r] # << >> /\ HasFreePermit(r, S.users[r] \ {p})
    THEN [S EXCEPT !.users[r] = (@ \ {p}) \cup {Head(S.rqueue[r])},
                   !.rqueue[r] = Tail(@),
                   !.evt[Head(S.rqueue[r])] = "triggered"]
    ELSE [S EXCEPT !.users[r] = @ \ {p}]

(* ------------------------------ scheduler ------------------------------ *)
\* A process whose yielded event has been triggered at the current time.
Ready(p) == evt[p] = "triggered"

\* A process whose Timeout is the earliest scheduled one, with nothing left
\* to resume at the current time.  An uncaught exception of a process is
\* raised by env.run() once the events of the current time are processed:
\* the clock never advances after a failure.
TimeoutDue(p) ==
    /\ wake[p] >= 0
    /\ \A q \in Procs : pc[q] # "failed"
    /\ \A q \in Procs :
          ~Ready(q) /\ pc[q] \notin {"start", "s_start", "c_start", "t_start",
                                      "b_start"}
    /\ wake[p] = Min({wake[q] : q \in {x \in Procs : wake[x] >= 0}})

(* =================== dores: InstallationVessel processes =============== *)
PORT == MaxVessels + 1
OWF == MaxVessels + 2

\* An entry that leaves out the ComponentsInstalled column.
EntryShort(S, v, description, activity_state, t) ==
    IF S.log = Unobserved THEN S ELSE
    [S EXCEPT !.log =
        [Timestamp |-> Append(@.Timestamp, t),
         ID |-> Append(@.ID, v),
         ActivityDescription |-> Append(@.ActivityDescription, description),
         ActivityState |-> Append(@.ActivityState, activity_state),
         ComponentsInStock |-> Append(@.ComponentsInStock, S.level[PORT]),
         ComponentsOnboard |-> Append(@.ComponentsOnboard, S.level[v]),
         ComponentsInstalled |-> @.ComponentsInstalled]]

\* EventLog.entry called by vessel v when the clock reads t and the
\* containers are as in S: one value is appended to every column.  The
\* timestamp is datetime.fromtimestamp(env.now), counted here in seconds
\* from the start date.
Entry(S, v, description, activity_state, t) ==
    IF S.log = Unobserved THEN S ELSE
    [S EXCEPT !.log =
        [Timestamp |-> Append(@.Timestamp, t),
         ID |-> Append(@.ID, v),
         ActivityDescription |-> Append(@.ActivityDescription, description),
         ActivityState |-> Append(@.ActivityState, activity_state),
         ComponentsInStock |-> Append(@.ComponentsInStock, S.level[PORT]),
         ComponentsOnboard |-> Append(@.ComponentsOnboard, S.level[v]),
         ComponentsInstalled |->
             Append(@.ComponentsInstalled, S.level[OWF])]]

\* The loading positions of load_component: from the GRANTED entry to the
\* COMPLETED entry, all inside the `with origin.resource.request()` block.
LoadingPcs == {"load_get", "load_put", "load_timeout"}

\* load_component up to `yield req`, entered with shared state S at time
\* t: the berth is requested and the REQUESTED entry is logged.
RequestBerth(v, S, t) ==
    /\ now' = t
    /\ pc' = [pc EXCEPT ![v] = "wait_berth"]
    /\ wake' = [wake EXCEPT ![v] = -1]
    /\ Commit(Entry(Request(S, PORT, v), v, "Request berth", "REQUESTED", t))
    /\ UNCHANGED <<cap, rcap, others, act>>

\* The head of the loading loop of load_component, entered with shared state
\* S at time t: either the next get from the port is issued, or the loop and
\* the `with` block are left (COMPLETED is logged, the berth is released)
\* and the vessel sails (navigate logs INITIATED).
LoadLoop(v, S, t) ==
    /\ now' = t
    /\ IF S.level[v] < cap[v] /\ S.level[PORT] # 0
       THEN /\ Commit(DoGet(S, PORT, v, 1))
            /\ pc' = [pc EXCEPT ![v] = "load_get"]
            /\ wake' = [wake EXCEPT ![v] = -1]
       ELSE /\ Commit(Entry(Release(Entry(S, v, "Load", "COMPLETED", t),
                                      PORT, v),
                              v, "Navigate", "INITIATED", t))
            /\ pc' = [pc EXCEPT ![v] = "nav_to_owf"]
            /\ wake' = [wake EXCEPT ![v] = t + NavigateDuration]
    /\ UNCHANGED <<cap, rcap, others, act>>

\* execute_activities starts: first pass of the outer loop.  The processes
\* are started in the order start_simulation created them in.
Execute(v) ==
    /\ pc[v] = "start"
    /\ \A u \in Procs : u < v => pc[u] # "start"
    /\ RequestBerth(v, Cur, now)

\* `yield req` returns: GRANTED, INITIATED, loop head.
BerthGrantedNoYield(v) ==
    /\ pc[v] = "wait_berth"
    /\ LoadLoop(v, Entry(Entry(Resumed(v), v, "Request berth", "GRANTED",
                                now),
                          v, "Load", "INITIATED", now), now)
BerthGranted(v) ==
    /\ pc[v] = "wait_berth"
    /\ Ready(v)
    /\ LoadLoop(v, Entry(Entry(Resumed(v), v, "Request berth", "GRANTED",
                                now),
                          v, "Load", "INITIATED", now), now)

\* `yield origin.container.get(1)` returns; destination.container.put(1).
LoadGot(v) ==
    /\ pc[v] = "load_get"
    /\ Ready(v)
    /\ Commit(DoPut(TriggerPut(Resumed(v), PORT), v, v, 1))
    /\ pc' = [pc EXCEPT ![v] = "load_put"]
    /\ UNCHANGED <<now, wake, cap, rcap, others, act>>

\* `yield destination.container.put(1)` returns; env.timeout(3600).
LoadPut(v) ==
    /\ pc[v] = "load_put"
    /\ Ready(v)
    /\ Commit(TriggerGet(Resumed(v), v))
    /\ pc' = [pc EXCEPT ![v] = "load_timeout"]
    /\ wake' = [wake EXCEPT ![v] = now + LoadDuration]
    /\ UNCHANGED <<now, cap, rcap, others, act>>

\* The loading timeout fires: back to the loop head.
LoadTimeout(v) ==
    /\ pc[v] = "load_timeout"
    /\ TimeoutDue(v)
    /\ LoadLoop(v, Cur, wake[v])

\* The same with INITIATED logged after the get from the deck.
ArriveOwfLogsLate(v) ==
    /\ pc[v] \in {"nav_to_owf", "nav_between"}
    /\ TimeoutDue(v)
    /\ now' = wake[v]
    /\ Commit(Entry(DoGet(Entry(Cur, v, "Navigate", "COMPLETED", wake[v]),
                           v, v, 1),
                     v, "Install", "INITIATED", wake[v]))
    /\ pc' = [pc EXCEPT ![v] = "inst_get"]
    /\ wake' = [wake EXCEPT ![v] = -1]
    /\ UNCHANGED <<cap, rcap, others, act>>

\* navigate(...) to the wind farm (or to the next site) completes and
\* logs COMPLETED; install_component logs INITIATED and issues
\* origin.container.get(1) on the deck.
ArriveOwf(v) ==
    /\ pc[v] \in {"nav_to_owf", "nav_between"}
    /\ TimeoutDue(v)
    /\ now' = wake[v]
    /\ Commit(DoGet(Entry(Entry(Cur, v, "Navigate", "COMPLETED", wake[v]),
                           v, "Install", "INITIATED", wake[v]), v, v, 1))
    /\ pc' = [pc EXCEPT ![v] = "inst_get"]
    /\ wake' = [wake EXCEPT ![v] = -1]
    /\ UNCHANGED <<cap, rcap, others, act>>

\* The deck get returns; destination.container.put(1) on the wind farm.
InstGot(v) ==
    /\ pc[v] = "inst_get"
    /\ Ready(v)
    /\ Commit(DoPut(TriggerPut(Resumed(v), v), OWF, v, 1))
    /\ pc' = [pc EXCEPT ![v] = "inst_put"]
    /\ UNCHANGED <<now, wake, cap, rcap, others, act>>

\* The wind-farm put returns; env.timeout(3600).
InstPut(v) ==
    /\ pc[v] = "inst_put"
    /\ Ready(v)
    /\ Commit(TriggerGet(Resumed(v), OWF))
    /\ pc' = [pc EXCEPT ![v] = "inst_timeout"]
    /\ wake' = [wake EXCEPT ![v] = now + InstallDuration]
    /\ UNCHANGED <<now, cap, rcap, others, act>>

\* install_component completes and logs COMPLETED: sail to the next site
\* while components are left on deck, else sail back to the port (navigate
\* logs INITIATED).
InstTimeout(v) ==
    /\ pc[v] = "inst_timeout"
    /\ TimeoutDue(v)
    /\ now' = wake[v]
    /\ pc' = [pc EXCEPT ![v] = IF level[v] > 0 THEN "nav_between"
                                ELSE "nav_to_port"]
    /\ wake' = [wake EXCEPT ![v] = wake[v] + NavigateDuration]
    /\ Commit(Entry(Entry(Cur, v, "Install", "COMPLETED", wake[v]),
                     v, "Navigate", "INITIATED", wake[v]))
    /\ UNCHANGED <<cap, rcap, others, act>>

\* Back in port (navigate logs COMPLETED): stop when the port is empty,
\* else the next pass.
ArrivePort(v) ==
    /\ pc[v] = "nav_to_port"
    /\ TimeoutDue(v)
    /\ IF level[PORT] = 0
       THEN /\ now' = wake[v]
            /\ pc' = [pc EXCEPT ![v] = "done"]
            /\ wake' = [wake EXCEPT ![v] = -1]
            /\ Commit(Entry(Cur, v, "Navigate", "COMPLETED", wake[v]))
            /\ UNCHANGED <<cap, rcap, others, act>>
       ELSE RequestBerth(v, Entry(Cur, v, "Navigate", "COMPLETED", wake[v]),
                         wake[v])

\* Site.__init__ / InstallationVessel.__init__ / create_entities: the port
\* holds its stock, the wind farm and the decks are empty.
InitVessels(n, stock, room, deck, berths, eventlog) ==
        /\ now = 0
        /\ pc = [v \in 1..n |-> "start"]
        /\ wake = [v \in 1..n |-> -1]
        /\ evt = [v \in 1..n |-> "none"]
        /\ level = [c \in (1..n) \cup {PORT, OWF} |->
                      IF c = PORT THEN stock ELSE 0]
        /\ cap = [c \in (1..n) \cup {PORT, OWF} |->
                    IF c = PORT THEN MaxStock ELSE IF c = OWF THEN room ELSE deck]
        /\ getq = [c \in (1..n) \cup {PORT, OWF} |-> << >>]
        /\ putq = [c \in (1..n) \cup {PORT, OWF} |-> << >>]
        /\ users = [r \in {PORT} |-> {}]
        /\ rqueue = [r \in {PORT} |-> << >>]
        /\ rcap = [r \in {PORT} |-> berths]
        /\ act = << >>
        /\ log = eventlog
        /\ loop = [pc |-> "idle"]
        /\ queue = << >>
        /\ gate = [pc |-> "idle"]
        /\ run = [pc |-> "idle"]

Init ==
    \E n \in 1..MaxVessels, stock \in 0..MaxStock, room \in 1..MaxStock,
       deck \in 1..MaxDeck, berths \in 1..MaxBerths :
        InitVessels(n, stock, room, deck, berths, Unobserved)

\* The same with the event log in the state.
InitLog ==
    \E n \in 1..MaxLogged, stock \in 0..MaxLoggedStock,
       room \in 1..MaxLoggedStock, deck \in 1..MaxDeck,
       berths \in 1..MaxBerths :
        InitVessels(n, stock, room, deck, berths, EmptyLog)

Next ==
    \/ \E v \in Procs : Execute(v)
    \/ \E v \in Procs : BerthGranted(v)
    \/ \E v \in Procs : LoadGot(v)
    \/ \E v \in Procs : LoadPut(v)
    \/ \E v \in Procs : LoadTimeout(v)
    \/ \E v \in Procs : ArriveOwf(v)
    \/ \E v \in Procs : InstGot(v)
    \/ \E v \in Procs : InstPut(v)
    \/ \E v \in Procs : InstTimeout(v)
    \/ \E v \in Procs : ArrivePort(v)

Spec == Init /\ [][Next]_vars

\* env.run() processes events as long as there are any.
SpecFair == Spec /\ WF_vars(Next)

SpecLog == InitLog /\ [][Next]_vars

(* ================= OpenCLSim: ShiftAmountActivity processes ============ *)
\* Every activity takes content from site 1; its destination is another site
\* and its processor is either the destination itself or the shared crane.
Sites == 1..NumSites
CRANE == NumSites + 1

\* Processor.determine_processor_amount as called by main_process_function
\* with the activity's origin, destination and self.amount; 0 stands for the
\* ValueError raised on a full destination or an empty origin.
DetermineAmount(a) ==
    LET free == cap[act[a].dest] - level[act[a].dest]
        have == level[act[a].origin]
    IN  IF free <= 0 \/ have <= 0 THEN 0
        ELSE IF act[a].given THEN Min({have, free, act[a].amount})
        ELSE Min({have, free})

\* site.container.get_level(id_) < amount: the content the reservation counted
\* on has been taken since get_available triggered.
StaleNever(S, a) == FALSE
StaleOrFull(S, a) ==
    \/ S.level[act[a].origin] < act[a].amount
    \/ cap[act[a].dest] - S.level[act[a].dest] < act[a].amount
Stale(S, a) == S.level[act[a].origin] < act[a].amount

\* _release_resource: release r when the activity holds it.
ReleaseIfHeld(S, r, a) == IF a \in S.users[r] THEN Release(S, r, a) ELSE S

\* The resources in the order in which main_process_function releases them
\* after the shift.
ReleaseOrderReversed(a) == <<act[a].proc, act[a].origin, act[a].dest>>
ReleaseOrder(a) == <<act[a].dest, act[a].origin, act[a].proc>>

\* _release_resource(resource_requests, r, self.keep_resources): a resource
\* listed in keep_resources stays requested; another one is released if held.
KeepsNothing(a, r) == FALSE
Kept(a, r) == r \in act[a].keep

\* The releases after the shift, one resource after the other: the state they
\* leave and the resources that were released, in the order of their release.
RECURSIVE ReleaseInOrder(_, _, _)
ReleaseInOrder(S, a, rs) ==
    IF rs = << >> THEN [state |-> S, released |-> << >>]
    ELSE LET r == Head(rs)
             does == ~Kept(a, r) /\ a \in S.users[r]
             rest == ReleaseInOrder(IF does THEN Release(S, r, a) ELSE S,
                                    a, Tail(rs))
         IN  [state |-> rest.state,
              released |-> IF does THEN <<r>> \o rest.released
                           ELSE rest.released]

\* The stale branches: the permits acquired in this attempt go back.
AbortKeepsPermits(S, a, rs) == S
AbortReservation(S, a, rs) ==
    LET S1 == ReleaseIfHeld(S, act[a].proc, a)
    IN  IF act[a].origin \in rs THEN ReleaseIfHeld(S1, act[a].origin, a)
        ELSE S1

\* container.get_available(amount): an event that is triggered at once when
\* the level suffices and else by a later put.
GetAvailable(S, a) ==
    [S EXCEPT !.evt[a] = IF S.level[act[a].origin] >= act[a].amount
                         THEN "triggered" ELSE "pending"]

\* The put callback of a container: pending get_available events whose amount
\* has become available are triggered.
WakeAvailable(S, c) ==
    [S EXCEPT !.evt = [q \in Procs |->
        IF /\ pc[q] = "s_wait_avail"
           /\ S.evt[q] = "pending"
           /\ act[q].origin = c
           /\ S.level[c] >= act[q].amount
        THEN "triggered" ELSE S.evt[q]]]

\* The log of activity a, next to the logs of the sites and of the crane.
ActivityLog(a) == CRANE + a

\* Log.log_entry(t, activity_id, activity_state) on the log of object o: the
\* entry is appended with the timestamp it is given.
LogEntry(S, o, t, a, state) ==
    IF S.log = Unobserved THEN S
    ELSE [S EXCEPT !.log[o] = Append(@, [Timestamp |-> t, ActivityID |-> a,
                                         ActivityState |-> state])]

\* An entry on the processor's log only.
LogPartsProcessorOnly(S, a, A, t, state) ==
    LogEntry(S, A[a].proc, t, a, state)

\* `for location in set([self, origin, destination]): location.log_entry`.
LogParts(S, a, A, t, state) ==
    LET S1 == LogEntry(S, A[a].proc, t, a, state)
        S2 == IF A[a].origin # A[a].proc
              THEN LogEntry(S1, A[a].origin, t, a, state) ELSE S1
    IN  IF A[a].dest \notin {A[a].proc, A[a].origin}
        THEN LogEntry(S2, A[a].dest, t, a, state) ELSE S2

\* check_possible_shift after its get or put returned at time t: when time
\* has passed since the request, WAIT_START is logged with the time of the
\* request and WAIT_STOP with the current time, on the processor's log.
LogWaiting(S, a, t) ==
    IF act[a].start_time # t
    THEN LogEntry(LogEntry(S, act[a].proc, act[a].start_time, a,
                           "WAIT_START"),
                  act[a].proc, t, a, "WAIT_STOP")
    ELSE S

\* The START entry of the activity at time t, then Processor.process up to
\* its first yield: the assertions, START on processor, origin and
\* destination, and the get from the origin.
StartShift(a, S, A, t) ==
    LET S1 == LogEntry(S, ActivityLog(a), t, a, "START")
    IN  IF ~A[a].colocated
        THEN /\ Commit(S1)
             /\ pc' = [pc EXCEPT ![a] = "failed"]
             /\ act' = [A EXCEPT ![a].error = "assertion"]
        ELSE /\ Commit(DoGet(LogParts(S1, a, A, t, "START"), A[a].origin, a,
                             Abs(A[a].amount)))
             /\ pc' = [pc EXCEPT ![a] = "s_get"]
             /\ act' = [A EXCEPT ![a].start_time = t]

\* The same with START logged before the weather wait.
BeginShiftStartsEarly(a, S, A) ==
    IF A[a].delay >= 0
    THEN /\ Commit(LogEntry(LogEntry(S, ActivityLog(a), now, a, "START"),
                            ActivityLog(a), now, a, "WAIT_START"))
         /\ pc' = [pc EXCEPT ![a] = "s_delay"]
         /\ act' = A
    ELSE StartShift(a, S, A, now)

\* After the reservation: without a duration and without a phase the run
\* fails; else START is logged and _shift_amount calls processor.process,
\* which asserts that processor and destination are at the origin and begins
\* with the get from the origin.
BeginShiftWith(a, S, A) ==
    IF ~A[a].timed
    THEN /\ Commit(S)
         /\ pc' = [pc EXCEPT ![a] = "failed"]
         /\ act' = [A EXCEPT ![a].error = "undefined_rate"]
    ELSE IF A[a].delay >= 0
    THEN /\ Commit(LogEntry(S, ActivityLog(a), now, a, "WAIT_START"))
         /\ pc' = [pc EXCEPT ![a] = "s_delay"]
         /\ act' = A
    ELSE StartShift(a, S, A, now)

\* processor.process without its assertions.
BeginShiftUnchecked(a, S) ==
    /\ Commit(DoGet(S, act[a].origin, a, Abs(act[a].amount)))
    /\ pc' = [pc EXCEPT ![a] = "s_get"]
    /\ UNCHANGED act

\* The same with the activity's fields as they stand.
BeginShift(a, S) == BeginShiftWith(a, S, act)

\* Head of the loop of _request_resource_if_available, entered with the
\* activity's fields A: the amount determined in the same step, if any.
ReserveLoopWith(a, S, A) ==
    IF A[a].amount > 0
    THEN /\ Commit([S EXCEPT !.evt[a] =
                       IF S.level[A[a].origin] >= A[a].amount
                       THEN "triggered" ELSE "pending"])
         /\ pc' = [pc EXCEPT ![a] = "s_wait_avail"]
         /\ act' = A
    ELSE BeginShiftWith(a, S, A)

\* Head of the loop of _request_resource_if_available.
ReserveLoop(a, S) ==
    IF act[a].amount > 0
    THEN /\ Commit(GetAvailable(S, a))
         /\ pc' = [pc EXCEPT ![a] = "s_wait_avail"]
         /\ UNCHANGED act
    ELSE BeginShift(a, S)

\* The origin's resource is held: last staleness check, then the shift.
AfterOrigin(a, S) ==
    IF Stale(S, a)
    THEN ReserveLoop(a, AbortReservation(S, a, {act[a].origin}))
    ELSE BeginShift(a, S)

\* The processor's resource is held: staleness check, then the origin's
\* resource is requested.
AfterProcessor(a, S) ==
    IF Stale(S, a)
    THEN ReserveLoop(a, AbortReservation(S, a, {}))
    ELSE IF a \in S.users[act[a].origin]
    THEN AfterOrigin(a, S)
    ELSE /\ Commit(Request(S, act[a].origin, a))
         /\ pc' = [pc EXCEPT ![a] = "s_wait_orig"]
         /\ UNCHANGED act

\* delay_processing yields env.timeout(waiting) when the step has led the
\* activity to the weather wait.
Timer(a) ==
    wake' = IF pc'[a] = "s_delay"
            THEN [wake EXCEPT ![a] = now + act[a].delay]
            ELSE wake

\* main_process_function without its checks of location and amount.
ShiftStartUnchecked(a) ==
    /\ pc[a] = "s_start"
    /\ act' = [act EXCEPT ![a] = [@ EXCEPT !.given = TRUE,
                                           !.amount = DetermineAmount(a)]]
    /\ Commit(Request(Cur, act[a].dest, a))
    /\ pc' = [pc EXCEPT ![a] = "s_wait_dest"]
    /\ UNCHANGED <<now, wake, cap, rcap, others>>

\* main_process_function up to its first yield: the processor and the
\* destination are asserted to be at the origin, the amount is determined and
\* the destination's resource requested, or the run fails. A destination kept
\* from the previous execution is not requested again: the reservation loop is
\* entered in the same step.
ShiftStart(a) ==
    /\ pc[a] = "s_start"
    /\ IF ~act[a].colocated
       THEN /\ pc' = [pc EXCEPT ![a] = "failed"]
            /\ act' = [act EXCEPT ![a].error = "assertion"]
            /\ UNCHANGED <<evt, level, getq, putq, users, rqueue, log>>
       ELSE IF DetermineAmount(a) = 0
       THEN /\ pc' = [pc EXCEPT ![a] = "failed"]
            /\ act' = [act EXCEPT ![a].error = "empty_or_full"]
            /\ UNCHANGED <<evt, level, getq, putq, users, rqueue, log>>
       ELSE IF a \in users[act[a].dest]
       THEN ReserveLoopWith(a, Cur,
                [act EXCEPT ![a] = [@ EXCEPT !.given = TRUE,
                                             !.amount = DetermineAmount(a)]])
       ELSE /\ act' = [act EXCEPT ![a] = [@ EXCEPT !.given = TRUE,
                                      !.amount = DetermineAmount(a)]]
            /\ Commit(Request(Cur, act[a].dest, a))
            /\ pc' = [pc EXCEPT ![a] = "s_wait_dest"]
    /\ Timer(a)
    /\ UNCHANGED <<now, cap, rcap, others>>

\* The destination's resource is granted: the reservation loop is entered.
ShiftDestGranted(a) ==
    /\ pc[a] = "s_wait_dest"
    /\ Ready(a)
    /\ ReserveLoop(a, Resumed(a))
    /\ Timer(a)
    /\ UNCHANGED <<now, cap, rcap, others>>

\* get_available has triggered: the processor's resource is requested.
ShiftAvailable(a) ==
    /\ pc[a] = "s_wait_avail"
    /\ Ready(a)
    /\ IF a \in users[act[a].proc]
       THEN AfterProcessor(a, Resumed(a))
       ELSE /\ Commit(Request(Resumed(a), act[a].proc, a))
            /\ pc' = [pc EXCEPT ![a] = "s_wait_proc"]
            /\ UNCHANGED act
    /\ Timer(a)
    /\ UNCHANGED <<now, cap, rcap, others>>

\* The processor's resource is granted.
ShiftProcGranted(a) ==
    /\ pc[a] = "s_wait_proc"
    /\ Ready(a)
    /\ AfterProcessor(a, Resumed(a))
    /\ Timer(a)
    /\ UNCHANGED <<now, cap, rcap, others>>

\* The origin's resource is granted.
ShiftOrigGranted(a) ==
    /\ pc[a] = "s_wait_orig"
    /\ Ready(a)
    /\ AfterOrigin(a, Resumed(a))
    /\ Timer(a)
    /\ UNCHANGED <<now, cap, rcap, others>>

\* Processor.process: the get from the origin returned; the processing
\* duration starts.
ShiftGot(a) ==
    /\ pc[a] = "s_get"
    /\ Ready(a)
    /\ Commit(LogWaiting(TriggerPut(Resumed(a), act[a].origin), a, now))
    /\ pc' = [pc EXCEPT ![a] = "s_timeout"]
    /\ wake' = [wake EXCEPT ![a] = now + act[a].duration]
    /\ act' = [act EXCEPT ![a].start_time = 0 - 1]
    /\ UNCHANGED <<now, cap, rcap, others>>

\* Processor.process: the duration has elapsed; the put into the destination.
ShiftElapsed(a) ==
    /\ pc[a] = "s_timeout"
    /\ TimeoutDue(a)
    /\ now' = wake[a]
    /\ wake' = [wake EXCEPT ![a] = -1]
    /\ Commit(DoPut(Cur, act[a].dest, a, Abs(act[a].amount)))
    /\ pc' = [pc EXCEPT ![a] = "s_put"]
    /\ act' = [act EXCEPT ![a].start_time = wake[a]]
    /\ UNCHANGED <<cap, rcap, others>>

\* The weather wait of delay_processing has elapsed: WAIT_STOP, then the
\* activity starts.
ShiftDelayed(a) ==
    /\ pc[a] = "s_delay"
    /\ TimeoutDue(a)
    /\ now' = wake[a]
    /\ wake' = [wake EXCEPT ![a] = 0 - 1]
    /\ StartShift(a, LogEntry(Cur, ActivityLog(a), wake[a], a, "WAIT_STOP"),
                  act, wake[a])
    /\ UNCHANGED <<cap, rcap, others>>

ShiftPutDoneNoRelease(a) ==
    /\ pc[a] = "s_put"
    /\ Ready(a)
    /\ Commit(WakeAvailable(TriggerGet(Resumed(a), act[a].dest), act[a].dest))
    /\ pc' = [pc EXCEPT ![a] = "s_done"]
    /\ UNCHANGED <<now, wake, cap, rcap, others, act>>

\* The put returned: the wait, if any, and STOP are logged and the
\* destination's, the origin's and the processor's resources are released,
\* in this order.
ShiftPutDone(a) ==
    /\ pc[a] = "s_put"
    /\ Ready(a)
    /\ LET S0 == WakeAvailable(TriggerGet(Resumed(a), act[a].dest), act[a].dest)
           S1 == LogParts(LogWaiting(S0, a, now), a, act, now, "STOP")
           S2 == LogEntry(S1, ActivityLog(a), now, a, "STOP")
           R == ReleaseInOrder(S2, a, ReleaseOrder(a))
       IN  /\ Commit(R.state)
           /\ act' = [act EXCEPT ![a].released = R.released,
                                 ![a].start_time = 0 - 1]
    /\ pc' = [pc EXCEPT ![a] = "s_done"]
    /\ UNCHANGED <<now, wake, cap, rcap, others>>

\* Activities are listed in non-decreasing order of (destination, processor):
\* they are started together, so their numbering carries no meaning.
Ordered(f) ==
    \A a \in DOMAIN f : \A b \in DOMAIN f :
        a < b => \/ f[a].dest < f[b].dest
                 \/ f[a].dest = f[b].dest /\ f[a].proc <= f[b].proc

\* The model definition: sites with a container and a resource of one permit,
\* a crane, and ShiftAmount activities registered to start at time 0, all
\* constructed with amount=None or all with amount=1.
InitShift ==
    \E n \in 1..MaxActs, have \in 0..SiteCap, filled \in 0..SiteCap,
       capped \in BOOLEAN :
    \E f \in [1..n -> [origin : {1}, dest : Sites \ {1},
                       proc : Sites \cup {CRANE}, given : {capped},
                       amount : {IF capped THEN 1 ELSE 0},
                       duration : {ShiftDuration}, runs : {1},
                       colocated : {TRUE}, error : {"none"},
                       timed : {TRUE}, keep : {{}}, released : {<< >>},
                       delay : {0 - 1}, start_time : {0 - 1},
                       user : {[given |-> capped,
                                amount |-> IF capped THEN 1 ELSE 0]}]] :
        /\ \A a \in 1..n : f[a].proc \in {f[a].dest, CRANE}
        /\ Ordered(f)
        /\ act = f
        /\ log = Unobserved
        /\ now = 0
        /\ pc = [a \in 1..n |-> "s_start"]
        /\ wake = [a \in 1..n |-> -1]
        /\ evt = [a \in 1..n |-> "none"]
        /\ level = [c \in Sites |-> IF c = 1 THEN have ELSE filled]
        /\ cap = [c \in Sites |-> SiteCap]
        /\ getq = [c \in Sites |-> << >>]
        /\ putq = [c \in Sites |-> << >>]
        /\ users = [r \in Sites \cup {CRANE} |-> {}]
        /\ rqueue = [r \in Sites \cup {CRANE} |-> << >>]
        /\ rcap = [r \in Sites \cup {CRANE} |-> 1]
        /\ loop = [pc |-> "idle"]
        /\ queue = << >>
        /\ gate = [pc |-> "idle"]
        /\ run = [pc |-> "idle"]

\* The enclosing Repeat/While loop executes the activity again:
\* sub_process.start() and call_main_proc on the same activity object.
ShiftRestart(a) ==
    /\ pc[a] = "s_done"
    /\ act[a].runs < MaxRuns
    /\ pc' = [pc EXCEPT ![a] = "s_start"]
    /\ act' = [act EXCEPT ![a].runs = @ + 1]
    /\ UNCHANGED <<now, wake, evt, level, cap, getq, putq, users, rqueue, rcap,
                   log, others>>

\* The model definition of a cycle: an activity that shifts content from site
\* 1 to site 2 and, optionally, one that shifts it back, with the crane or
\* their destination as processor; both constructed with amount=None or both
\* with the same amount, which may be zero or negative.
InitRepeat ==
    \E back \in BOOLEAN, have \in 0..SiteCap, filled \in 0..SiteCap,
       capped \in BOOLEAN, amount \in (0 - 1)..MaxUserAmount,
       crane \in BOOLEAN, together \in BOOLEAN, timed \in BOOLEAN,
       keep \in {{}, {2}, {1, 2, CRANE}},
       entry \in {"initiate_simulation", "start_simulation"} :
        /\ capped \/ amount = 0
        /\ log = Unobserved
        /\ act = [a \in (IF back THEN {1, 2} ELSE {1}) |->
                    [origin |-> a, dest |-> 3 - a,
                     proc |-> IF crane THEN CRANE ELSE 3 - a,
                     given |-> capped,
                     amount |-> IF capped THEN amount ELSE 0,
                     duration |-> ShiftDuration, runs |-> 1,
                     colocated |-> together, error |-> "none",
                     timed |-> timed, keep |-> keep, released |-> << >>,
                     delay |-> 0 - 1, start_time |-> 0 - 1,
                     user |-> [given |-> capped,
                               amount |-> IF capped THEN amount ELSE 0]]]
        /\ now = 0
        /\ pc = [a \in (IF back THEN {1, 2} ELSE {1}) |-> "s_start"]
        /\ wake = [a \in (IF back THEN {1, 2} ELSE {1}) |-> 0 - 1]
        /\ evt = [a \in (IF back THEN {1, 2} ELSE {1}) |-> "none"]
        /\ level = [c \in {1, 2} |-> IF c = 1 THEN have ELSE filled]
        /\ cap = [c \in {1, 2} |-> SiteCap]
        /\ getq = [c \in {1, 2} |-> << >>]
        /\ putq = [c \in {1, 2} |-> << >>]
        /\ users = [r \in {1, 2, CRANE} |-> {}]
        /\ rqueue = [r \in {1, 2, CRANE} |-> << >>]
        /\ rcap = [r \in {1, 2, CRANE} |-> 1]
        /\ loop = [pc |-> "idle"]
        /\ queue = << >>
        /\ gate = [pc |-> "idle"]
        /\ run = [pc |-> "running", entry |-> entry, type |-> "none",
                  names |-> {}, offender |-> 0, restarts |-> 0,
                  levels |-> [c \in {1, 2} |-> IF c = 1 THEN have ELSE filled],
                  together |-> together, dirty |-> FALSE]

NextShift ==
    \/ \E a \in Procs : ShiftStart(a)
    \/ \E a \in Procs : ShiftDestGranted(a)
    \/ \E a \in Procs : ShiftAvailable(a)
    \/ \E a \in Procs : ShiftProcGranted(a)
    \/ \E a \in Procs : ShiftOrigGranted(a)
    \/ \E a \in Procs : ShiftGot(a)
    \/ \E a \in Procs : ShiftElapsed(a)
    \/ \E a \in Procs : ShiftPutDone(a)

SpecShift == InitShift /\ [][NextShift]_vars

\* The route of the a-th activity of a yard: the first two feed site 2 from
\* site 1, the others take from site 2 to site 3.
Route(a) == IF a <= 2 THEN <<1, 2>> ELSE <<2, 3>>

\* A yard: up to MaxYardActs ShiftAmount activities (amount=None) along
\* their routes, started together, with the crane or their destination as
\* processor; some of them wait on weather; every resource has the same
\* number of permits.  Every site, the crane and every activity keeps a log.
InitYardOf(most) ==
    \E n \in 1..most, have \in 0..SiteCap, filled \in 0..SiteCap,
       crane \in BOOLEAN, wait \in 0..MaxWait, gated \in SUBSET (1..most),
       permits \in 1..MaxPermits :
        /\ gated \subseteq 1..n
        /\ act = [a \in 1..n |->
                    [origin |-> Route(a)[1], dest |-> Route(a)[2],
                     proc |-> IF crane THEN CRANE ELSE Route(a)[2],
                     given |-> FALSE, amount |-> 0,
                     duration |-> ShiftDuration, runs |-> 1,
                     colocated |-> TRUE, error |-> "none",
                     timed |-> TRUE, keep |-> {}, released |-> << >>,
                     delay |-> IF a \in gated THEN wait ELSE 0 - 1,
                     start_time |-> 0 - 1,
                     user |-> [given |-> FALSE, amount |-> 0]]]
        /\ log = [o \in 1..(CRANE + n) |-> << >>]
        /\ now = 0
        /\ pc = [a \in 1..n |-> "s_start"]
        /\ wake = [a \in 1..n |-> 0 - 1]
        /\ evt = [a \in 1..n |-> "none"]
        /\ level = [c \in Sites |->
                      IF c = 1 THEN have ELSE IF c = 2 THEN filled ELSE 0]
        /\ cap = [c \in Sites |-> SiteCap]
        /\ getq = [c \in Sites |-> << >>]
        /\ putq = [c \in Sites |-> << >>]
        /\ users = [r \in Sites \cup {CRANE} |-> {}]
        /\ rqueue = [r \in Sites \cup {CRANE} |-> << >>]
        /\ rcap = [r \in Sites \cup {CRANE} |-> permits]
        /\ loop = [pc |-> "idle"]
        /\ queue = << >>
        /\ gate = [pc |-> "idle"]
        /\ run = [pc |-> "idle"]

InitYard == InitYardOf(MaxYardActs)

NextYard ==
    \/ NextShift
    \/ \E a \in Procs : ShiftDelayed(a)

SpecYard == InitYard /\ [][NextYard]_vars

\* The same with one more activity.
InitDock == InitYardOf(MaxDockActs)

SpecDock == InitDock /\ [][NextYard]_vars

\* A Move activity takes the processor or the destination of activity a away
\* from its origin while a is not inside a transfer.
Relocate(a) ==
    /\ pc[a] \in {"s_start", "s_wait_dest", "s_wait_avail", "s_wait_proc",
                  "s_wait_orig", "s_done"}
    /\ act[a].colocated
    /\ act' = [act EXCEPT ![a].colocated = FALSE]
    /\ UNCHANGED <<now, pc, wake, evt, level, cap, getq, putq, users, rqueue,
                   rcap, log, others>>

\* The exception with which the process of activity a has failed: its type
\* and the sites its message names.
Raised(a) ==
    IF act[a].error = "empty_or_full"
    THEN [type |-> "RuntimeError", names |-> {act[a].origin, act[a].dest}]
    ELSE IF act[a].error = "undefined_rate"
    THEN [type |-> "RuntimeError", names |-> {}]
    ELSE [type |-> "AssertionError", names |-> {}]

\* What the entry point raises when env.run() raises exc: start_simulation
\* lets it pass, initiate_simulation replaces it by
\* Exception("Aborted the simulation.").
Reraised(entry, exc) ==
    IF entry = "initiate_simulation"
    THEN [type |-> "Exception", names |-> {}]
    ELSE exc

\* env.run() processes the failed process event of activity a: the exception
\* leaves the run entry point and the simulation is over.
RunRaises(a) ==
    /\ run.pc = "running"
    /\ pc[a] = "failed"
    /\ run' = [run EXCEPT !.pc = "raised", !.offender = a,
                          !.type = Reraised(run.entry, Raised(a)).type,
                          !.names = Reraised(run.entry, Raised(a)).names]
    /\ UNCHANGED <<now, simVars, loop, queue, gate>>

\* env.run() has returned or raised: no event is left to process.
RunOver ==
    \/ run.pc = "raised"
    \/ /\ run.pc = "running"
       /\ \A a \in Procs : /\ pc[a] \in {"s_done", "failed"} \/ evt[a] = "pending"
                           /\ wake[a] < 0

\* The run that is over has moved content, has left a permit held and has
\* ended at another time than the epoch.
Dirty(epoch) ==
    /\ level # run.levels
    /\ \E r \in DOMAIN users : users[r] # {}
    /\ now # epoch

\* restart_simulation without define_sites and define_equipment: only the
\* environment and the processes are made anew.
RestartProcessesOnly(epoch) ==
    /\ RunOver
    /\ run.restarts < MaxRestarts
    /\ now' = epoch
    /\ run' = [run EXCEPT !.pc = "running", !.type = "none", !.names = {},
                          !.offender = 0, !.restarts = @ + 1,
                          !.dirty = Dirty(epoch)]
    /\ pc' = [a \in Procs |-> "s_start"]
    /\ wake' = [a \in Procs |-> 0 - 1]
    /\ evt' = [a \in Procs |-> "none"]
    /\ act' = [a \in Procs |->
                 [act[a] EXCEPT !.given = act[a].user.given,
                                !.amount = act[a].user.amount,
                                !.runs = 1, !.colocated = run.together,
                                !.error = "none", !.released = << >>]]
    /\ UNCHANGED <<level, cap, getq, putq, users, rqueue, rcap, log, loop,
                   queue, gate>>

\* restart_simulation(start_date) after a run: a new simpy.Environment at the
\* epoch of start_date and an empty registry, then the sites, the equipment
\* and the processes are defined anew and the simulation is started.
RestartSimulation(epoch) ==
    /\ RunOver
    /\ run.restarts < MaxRestarts
    /\ now' = epoch
    /\ run' = [run EXCEPT !.pc = "running", !.type = "none", !.names = {},
                          !.offender = 0, !.restarts = @ + 1,
                          !.dirty = Dirty(epoch)]
    /\ level' = run.levels
    /\ getq' = [c \in DOMAIN getq |-> << >>]
    /\ putq' = [c \in DOMAIN putq |-> << >>]
    /\ users' = [r \in DOMAIN users |-> {}]
    /\ rqueue' = [r \in DOMAIN rqueue |-> << >>]
    /\ pc' = [a \in Procs |-> "s_start"]
    /\ wake' = [a \in Procs |-> 0 - 1]
    /\ evt' = [a \in Procs |-> "none"]
    /\ act' = [a \in Procs |->
                 [act[a] EXCEPT !.given = act[a].user.given,
                                !.amount = act[a].user.amount,
                                !.runs = 1, !.colocated = run.together,
                                !.error = "none", !.released = << >>,
                                !.start_time = 0 - 1]]
    /\ log' = IF log = Unobserved THEN log
              ELSE [o \in DOMAIN log |-> << >>]
    /\ UNCHANGED <<cap, rcap, loop, queue, gate>>

NextRepeat ==
    \/ run.pc = "running" /\ NextShift
    \/ \E a \in Procs : run.pc = "running" /\ ShiftRestart(a)
    \/ \E a \in Procs : run.pc = "running" /\ Relocate(a)
    \/ \E a \in Procs : RunRaises(a)

SpecRepeat == InitRepeat /\ [][NextRepeat]_vars

\* The cycles that define a duration, have processor and destination at the
\* origin and are run through start_simulation, and may be restarted.
InitRestart ==
    /\ InitRepeat
    /\ run.entry = "start_simulation"
    /\ run.together
    /\ \A a \in Procs : act[a].timed

NextRestart ==
    \/ NextRepeat
    \/ \E epoch \in {MaxEpoch} : RestartSimulation(epoch)

SpecRestart == InitRestart /\ [][NextRestart]_vars

\* Both simulations.
InitSim == Init \/ InitShift

NextSim == Next \/ NextShift

SpecSim == InitSim /\ [][NextSim]_vars

(* ========= processes calling check_possible_shift on one container ===== *)
\* The one container the requests go to.
STORE == MaxClients + 1

RECURSIVE SumOver(_, _)
SumOver(f, D) ==
    IF D = {} THEN 0
    ELSE LET x == CHOOSE y \in D : TRUE IN f[x] + SumOver(f, D \ {x})

\* The requests issued and the timeouts yielded so far.
Requests == SumOver([p \in Procs |-> act[p].requests], Procs)
Sleeps == SumOver([p \in Procs |-> act[p].sleeps], Procs)

\* The wait entries logged whatever the times are.
LoggedAlways(p) ==
    IF pc[p] \in {"c_get", "c_put"} THEN <<act[p].start_time, now>> ELSE << >>

\* What check_possible_shift of process p logs when its request has returned:
\* WAIT_START at start_time and WAIT_STOP at end_time = env.now if the two
\* differ, else nothing.
Logged(p) ==
    IF pc[p] \in {"c_get", "c_put"} /\ act[p].start_time # now
    THEN <<act[p].start_time, now>> ELSE << >>

\* What a process does next: check_possible_shift with "get" or "put" and an
\* amount (start_time = env.now is noted, t being env.now), a timeout of one
\* time unit, or it returns.  MaxRequests and MaxSleeps bound the requests and the timeouts
\* of all processes together.
NextRequest(p, S, t) ==
    \/ /\ Requests < MaxRequests
       /\ \E a \in 1..MaxAmount :
            \/ /\ Commit(DoGet(S, STORE, p, a))
               /\ pc' = [pc EXCEPT ![p] = "c_get"]
               /\ act' = [act EXCEPT ![p] = [@ EXCEPT !.requests = @ + 1,
                             !.amount = a, !.start_time = t,
                             !.wait = Logged(p)]]
            \/ /\ Commit(DoPut(S, STORE, p, a))
               /\ pc' = [pc EXCEPT ![p] = "c_put"]
               /\ act' = [act EXCEPT ![p] = [@ EXCEPT !.requests = @ + 1,
                             !.amount = a, !.start_time = t,
                             !.wait = Logged(p)]]
       /\ wake' = [wake EXCEPT ![p] = 0 - 1]
    \/ /\ Sleeps < MaxSleeps
       /\ Commit(S)
       /\ pc' = [pc EXCEPT ![p] = "c_sleep"]
       /\ wake' = [wake EXCEPT ![p] = t + 1]
       /\ act' = [act EXCEPT ![p] = [@ EXCEPT !.sleeps = @ + 1,
                                              !.amount = 0, !.start_time = 0,
                                              !.wait = Logged(p)]]
    \/ /\ Commit(S)
       /\ pc' = [pc EXCEPT ![p] = "c_done"]
       /\ wake' = [wake EXCEPT ![p] = 0 - 1]
       /\ act' = [act EXCEPT ![p] = [@ EXCEPT !.amount = 0, !.start_time = 0,
                                              !.wait = Logged(p)]]

\* The process is started by the scheduler.
ClientStart(p) ==
    /\ pc[p] = "c_start"
    /\ NextRequest(p, Cur, now)
    /\ UNCHANGED <<now, cap, rcap, others>>

\* The get is processed without serving the put queue.
GetReturnedNoTrigger(p) ==
    /\ pc[p] = "c_get"
    /\ Ready(p)
    /\ NextRequest(p, Resumed(p), now)
    /\ UNCHANGED <<now, cap, rcap, others>>

\* `yield origin.container.get(amount)` returns (end_time = env.now): the
\* put queue is served with the room the get made.
GetReturned(p) ==
    /\ pc[p] = "c_get"
    /\ Ready(p)
    /\ NextRequest(p, TriggerPut(Resumed(p), STORE), now)
    /\ UNCHANGED <<now, cap, rcap, others>>

\* The put is processed without serving the get queue.
PutReturnedNoTrigger(p) ==
    /\ pc[p] = "c_put"
    /\ Ready(p)
    /\ NextRequest(p, Resumed(p), now)
    /\ UNCHANGED <<now, cap, rcap, others>>

\* `yield destination.container.put(amount)` returns: the get queue is
\* served with the content the put brought.
PutReturned(p) ==
    /\ pc[p] = "c_put"
    /\ Ready(p)
    /\ NextRequest(p, TriggerGet(Resumed(p), STORE), now)
    /\ UNCHANGED <<now, cap, rcap, others>>

\* The timeout of the process is the next event.
ClientWoke(p) ==
    /\ pc[p] = "c_sleep"
    /\ TimeoutDue(p)
    /\ now' = wake[p]
    /\ NextRequest(p, Cur, wake[p])
    /\ UNCHANGED <<cap, rcap, others>>

\* 1..MaxClients processes and a container of capacity MaxCapacity, empty or
\* full at the start.
InitContainer ==
    \E n \in 1..MaxClients, init \in {0, MaxCapacity} :
        /\ now = 0
        /\ pc = [p \in 1..n |-> "c_start"]
        /\ wake = [p \in 1..n |-> 0 - 1]
        /\ evt = [p \in 1..n |-> "none"]
        /\ level = [c \in {STORE} |-> init]
        /\ cap = [c \in {STORE} |-> MaxCapacity]
        /\ getq = [c \in {STORE} |-> << >>]
        /\ putq = [c \in {STORE} |-> << >>]
        /\ users = << >>
        /\ rqueue = << >>
        /\ rcap = << >>
        /\ log = EmptyLog
        /\ act = [p \in 1..n |-> [requests |-> 0, sleeps |-> 0, amount |-> 0,
                                  start_time |-> 0, init |-> init,
                                  wait |-> << >>]]
        /\ loop = [pc |-> "idle"]
        /\ queue = << >>
        /\ gate = [pc |-> "idle"]
        /\ run = [pc |-> "idle"]

NextContainer ==
    \/ \E p \in Procs : ClientStart(p)
    \/ \E p \in Procs : GetReturned(p)
    \/ \E p \in Procs : PutReturned(p)
    \/ \E p \in Procs : ClientWoke(p)

SpecContainer == InitContainer /\ [][NextContainer]_vars

(* ============== OpenCLSim: WhileActivity / conditional_process ========= *)
\* No vessel and no ShiftAmount activity takes part.
SimIdle ==
    /\ pc = << >> /\ wake = << >> /\ evt = << >> /\ act = << >>
    /\ log = EmptyLog
    /\ level = << >> /\ cap = << >> /\ getq = << >> /\ putq = << >>
    /\ users = << >> /\ rqueue = << >> /\ rcap = << >>

\* env.schedule: an event joins the queue behind every event that is due at
\* the same or at an earlier time.
RECURSIVE Schedule(_, _)
Schedule(q, e) ==
    IF q = << >> THEN <<e>>
    ELSE IF Head(q).t <= e.t THEN <<Head(q)>> \o Schedule(Tail(q), e)
    ELSE <<e>> \o q

\* The next event env.step() processes is one of the While process.
WhileResumes(at) ==
    /\ queue # << >>
    /\ Head(queue).kind = "while"
    /\ loop.pc = at

\* The loop test of conditional_process.
LoopContinuesOffByOne(L) == L.cond # "processed" /\ L.ii <= L.max
LoopContinues(L) == L.cond # "processed" /\ L.ii < L.max

\* The sub-activities before the last one are passed over.
StartSubAll(L, q, k, t) ==
    /\ loop' = [L EXCEPT !.pc = "w_sub", !.k = Len(L.durs)]
    /\ queue' = Schedule(q, [t |-> t + L.durs[k], kind |-> "while"])

\* sub_process.start() and call_main_proc of sub-activity k: the sub-activity
\* runs for its duration.
StartSub(L, q, k, t) ==
    /\ loop' = [L EXCEPT !.pc = "w_sub", !.k = k]
    /\ queue' = Schedule(q, [t |-> t + L.durs[k], kind |-> "while"])

\* The head of the while loop: another pass over the sub-activities, or STOP
\* is logged and the closing env.timeout(0) is yielded.
LoopHead(L, q, t) ==
    IF LoopContinues(L)
    THEN StartSub(L, q, 1, t)
    ELSE /\ loop' = [L EXCEPT !.pc = "w_final"]
         /\ queue' = Schedule(q, [t |-> t, kind |-> "while"])

\* A condition that already holds counts as processed from the start.
WhileStartProcessed ==
    /\ WhileResumes("w_start")
    /\ now' = Head(queue).t
    /\ LET created == IF loop.cond = "holds" THEN "processed" ELSE "pending"
       IN  LoopHead([loop EXCEPT !.cond = created, !.ii = 0], Tail(queue),
                    Head(queue).t)
    /\ UNCHANGED <<simVars, gate, run>>

\* conditional_process starts: the condition event is created (triggered at
\* once when the condition already holds), START is logged, ii = 0.
WhileStart ==
    /\ WhileResumes("w_start")
    /\ now' = Head(queue).t
    /\ LET created == IF loop.cond = "holds" THEN "triggered" ELSE "pending"
           q == IF loop.cond = "holds"
                THEN Schedule(Tail(queue), [t |-> Head(queue).t, kind |-> "cond"])
                ELSE Tail(queue)
       IN  LoopHead([loop EXCEPT !.cond = created, !.ii = 0], q, Head(queue).t)
    /\ UNCHANGED <<simVars, gate, run>>

\* The pause after a sub-activity is left out.
SubDoneNoPause(fires) ==
    /\ WhileResumes("w_sub")
    /\ now' = Head(queue).t
    /\ LET hit == fires /\ loop.kind = "while" /\ loop.cond = "pending"
           L == [loop EXCEPT !.runs[loop.k] = @ + 1,
                             !.cond = IF hit THEN "triggered" ELSE @,
                             !.trigPass = IF hit THEN loop.ii + 1 ELSE @]
           q == IF hit
                THEN Schedule(Tail(queue), [t |-> Head(queue).t, kind |-> "cond"])
                ELSE Tail(queue)
       IN  IF loop.k < Len(loop.durs)
           THEN StartSub(L, q, loop.k + 1, Head(queue).t)
           ELSE LoopHead([L EXCEPT !.ii = @ + 1], q, Head(queue).t)
    /\ UNCHANGED <<simVars, gate, run>>

\* The sub-activity's main process returns (its effect may be what fulfils the
\* condition): sub_process.end(), STOP of the sub-process is logged and
\* env.timeout(0) is yielded to let triggered events be processed.
SubDone(fires) ==
    /\ WhileResumes("w_sub")
    /\ now' = Head(queue).t
    /\ LET hit == fires /\ loop.kind = "while" /\ loop.cond = "pending"
           q == IF hit
                THEN Schedule(Tail(queue), [t |-> Head(queue).t, kind |-> "cond"])
                ELSE Tail(queue)
       IN  /\ loop' = [loop EXCEPT !.pc = "w_pause",
                                   !.runs[loop.k] = @ + 1,
                                   !.cond = IF hit THEN "triggered" ELSE @,
                                   !.trigPass = IF hit THEN loop.ii + 1 ELSE @]
           /\ queue' = Schedule(q, [t |-> Head(queue).t, kind |-> "while"])
    /\ UNCHANGED <<simVars, gate, run>>

\* The timeout(0) after a sub-activity returns: the next sub-activity of the
\* pass, or ii = ii + 1 and the loop test.
Paused ==
    /\ WhileResumes("w_pause")
    /\ now' = Head(queue).t
    /\ IF loop.k < Len(loop.durs)
       THEN StartSub(loop, Tail(queue), loop.k + 1, Head(queue).t)
       ELSE LoopHead([loop EXCEPT !.ii = @ + 1], Tail(queue), Head(queue).t)
    /\ UNCHANGED <<simVars, gate, run>>

\* The closing timeout(0) returns: the process ends.
WhileEnd ==
    /\ WhileResumes("w_final")
    /\ now' = Head(queue).t
    /\ loop' = [loop EXCEPT !.pc = "w_done"]
    /\ queue' = Tail(queue)
    /\ UNCHANGED <<simVars, gate, run>>

\* env.step() processes the condition event: its callbacks have run.
CondProcessed ==
    /\ queue # << >>
    /\ Head(queue).kind = "cond"
    /\ now' = Head(queue).t
    /\ loop' = [loop EXCEPT !.cond = "processed"]
    /\ queue' = Tail(queue)
    /\ UNCHANGED <<simVars, gate, run>>

\* Some process of the simulation fulfils the condition: the event is
\* triggered and scheduled at the current time (before the While activity
\* starts, the condition merely holds). The condition of a Repeat activity
\* is that the activity itself is done, which nothing fulfils while it runs.
CondTriggered ==
    /\ loop.kind = "while"
    /\ loop.pc \in {"w_start", "w_sub", "w_pause"}
    /\ loop.cond \in {"unmet", "pending"}
    /\ IF loop.cond = "unmet"
       THEN /\ loop' = [loop EXCEPT !.cond = "holds"]
            /\ UNCHANGED queue
       ELSE /\ loop' = [loop EXCEPT !.cond = "triggered",
                                    !.trigPass = IF loop.pc = "w_sub"
                                                 THEN loop.ii + 1 ELSE 0 - 1]
            /\ queue' = Schedule(queue, [t |-> now, kind |-> "cond"])
    /\ UNCHANGED <<now, simVars, gate, run>>

\* WhileActivity.__init__ / RepeatActivity.__init__ without the check of the
\* sub-activities.
ConstructUnchecked ==
    /\ loop.pc = "w_new"
    /\ IF loop.postpone_start
       THEN /\ loop' = [loop EXCEPT !.pc = "w_postponed"]
            /\ UNCHANGED queue
       ELSE /\ loop' = [loop EXCEPT !.pc = "w_start"]
            /\ queue' = Schedule(queue, [t |-> now, kind |-> "while"])
    /\ UNCHANGED <<now, simVars, gate, run>>

\* WhileActivity.__init__ / RepeatActivity.__init__: a sub-activity without
\* postpone_start raises; else the activity registers its process unless it
\* is itself constructed with postpone_start.
Construct ==
    /\ loop.pc = "w_new"
    /\ IF \E i \in DOMAIN loop.postponed : ~loop.postponed[i]
       THEN /\ loop' = [loop EXCEPT !.pc = "w_raised"]
            /\ UNCHANGED queue
       ELSE IF loop.postpone_start
       THEN /\ loop' = [loop EXCEPT !.pc = "w_postponed"]
            /\ UNCHANGED queue
       ELSE /\ loop' = [loop EXCEPT !.pc = "w_start"]
            /\ queue' = Schedule(queue, [t |-> now, kind |-> "while"])
    /\ UNCHANGED <<now, simVars, gate, run>>

\* A While or a Repeat activity over 1..MaxSubs sub-activities is about to be
\* constructed, each sub-activity and the activity itself with or without
\* postpone_start; max_iterations is an attribute of the activity, which
\* RepeatActivity sets to its repetitions.
InitWhile ==
    \E n \in 1..MaxSubs, m \in 0..MaxIterations, kind \in {"while", "repeat"},
       postpone \in BOOLEAN :
    \E d \in [1..n -> 0..MaxSubDuration], sub \in [1..n -> BOOLEAN] :
        /\ now = 0
        /\ SimIdle
        /\ loop = [pc |-> "w_new", ii |-> 0, k |-> 0, cond |-> "unmet",
                   kind |-> kind, postpone_start |-> postpone,
                   postponed |-> sub,
                   runs |-> [i \in 1..n |-> 0], max |-> m, durs |-> d,
                   trigPass |-> 0]
        /\ queue = << >>
        /\ gate = [pc |-> "idle"]
        /\ run = [pc |-> "idle"]

NextWhile ==
    \/ Construct
    \/ WhileStart
    \/ \E fires \in BOOLEAN : SubDone(fires)
    \/ Paused
    \/ WhileEnd
    \/ CondProcessed
    \/ CondTriggered

SpecWhile == InitWhile /\ [][NextWhile]_vars

(* ============ OpenCLSim: weather plugin / OffshoreEnvironment ========== *)
\* The index of the stored series: sample i is stamped (i - 1) * SampleStep.
Timestamp(i) == (i - 1) * SampleStep

\* A new block starts where limit_exceeded differs from the sample before it
\* (the first sample always differs from the shifted-in missing value).
BlockStarts(series) ==
    {i \in 1..Len(series) : i = 1 \/ series[i] # series[i - 1]}

\* end_date of a block: start_date of the block after it; the last block has
\* none. 0 stands for the missing value.
EndOfBlock(series, i) ==
    LET later == {j \in BlockStarts(series) : j > i}
    IN  IF later = {} THEN 0 ELSE Min(later)

\* blocks["length"] >= duration; a comparison with a missing length is False.
LongEnough(series, i, duration) ==
    /\ EndOfBlock(series, i) # 0
    /\ Timestamp(EndOfBlock(series, i)) - Timestamp(i) >= duration

\* The filter without its test of limit_exceeded.
WorkableAnyBlock(series, t, duration) ==
    {i \in BlockStarts(series) :
        /\ LongEnough(series, i, duration)
        /\ Timestamp(i) >= t}

\* The rows of blocks that pass the three-part filter.
Workable(series, t, duration) ==
    {i \in BlockStarts(series) :
        /\ LongEnough(series, i, duration)
        /\ ~series[i]
        /\ Timestamp(i) >= t}

\* .iloc[0] raises IndexError on an empty selection: the diagnostic is printed.
NoWindow(series, t, duration) == Workable(series, t, duration) = {}

\* find_window without the fallback: the wait runs to the end of the data.
find_window_to_horizon(series, t, duration) ==
    IF Workable(series, t, duration) # {}
    THEN Timestamp(Min(Workable(series, t, duration))) - t
    ELSE Len(series) * SampleStep

\* The delay find_window returns: up to the first workable block, and 0 when
\* .iloc[0] raises IndexError on an empty selection.
find_window(series, t, duration) ==
    IF Workable(series, t, duration) # {}
    THEN Timestamp(Min(Workable(series, t, duration))) - t
    ELSE 0

\* The clock runs on before the gated activity is started.
ClockAdvances ==
    /\ gate.pc = "g_start"
    /\ now < Len(gate.series) * SampleStep
    /\ now' = now + 1
    /\ UNCHANGED <<simVars, others>>

\* find_window writing limit_exceeded into the stored series: the samples
\* from the asking time on are left marked as exceeded.
RequestWindowInPlace ==
    /\ gate.pc = "g_start"
    /\ gate' = IF gate.stored
               THEN [gate EXCEPT !.pc = "g_wait", !.asked = now, !.queries = 1,
                        !.diag = NoWindow(gate.series, now, gate.duration),
                        !.delay = find_window(gate.series, now, gate.duration),
                        !.series = [i \in DOMAIN gate.series |->
                                      gate.series[i] \/ Timestamp(i) >= now]]
               ELSE [gate EXCEPT !.pc = "g_failed", !.asked = now,
                                 !.error = "KeyError"]
    /\ UNCHANGED <<now, simVars, loop, queue, run>>

\* find_window treating a variable that was never stored like missing data.
RequestWindowSwallows ==
    /\ gate.pc = "g_start"
    /\ gate' = IF gate.stored
               THEN [gate EXCEPT !.pc = "g_wait", !.asked = now, !.queries = 1,
                        !.diag = NoWindow(gate.series, now, gate.duration),
                        !.delay = find_window(gate.series, now, gate.duration)]
               ELSE [gate EXCEPT !.pc = "g_wait", !.asked = now, !.queries = 1,
                                 !.diag = TRUE, !.delay = 0]
    /\ UNCHANGED <<now, simVars, loop, queue, run>>

\* pre_process of the plugin: find_window is asked for the delay; a limit
\* expression over a variable that was never stored raises KeyError, which
\* neither find_window nor pre_process catches.
RequestWindow ==
    /\ gate.pc = "g_start"
    /\ gate' = IF gate.stored
               THEN [gate EXCEPT !.pc = "g_wait", !.asked = now, !.queries = 1,
                        !.diag = NoWindow(gate.series, now, gate.duration),
                        !.delay = find_window(gate.series, now, gate.duration)]
               ELSE [gate EXCEPT !.pc = "g_failed", !.asked = now,
                                 !.error = "KeyError"]
    /\ UNCHANGED <<now, simVars, loop, queue, run>>

\* find_window is called once more with the same limit expression and
\* duration before the clock has moved.
RequestAgain ==
    /\ gate.pc = "g_wait"
    /\ gate.queries = 1
    /\ gate' = [gate EXCEPT !.queries = 2,
                            !.again = find_window(gate.series, now, gate.duration)]
    /\ UNCHANGED <<now, simVars, loop, queue, run>>

\* delay_processing: the activity waits for the delay, then its main body
\* starts.
WindowReached ==
    /\ gate.pc = "g_wait"
    /\ now' = now + gate.delay
    /\ gate' = [gate EXCEPT !.pc = "g_run", !.started = now + gate.delay]
    /\ UNCHANGED <<simVars, loop, queue, run>>

\* An activity with operational limits is registered on an offshore
\* environment holding a series of 1..MaxSamples samples.
InitWeather ==
    \E n \in 1..MaxSamples, d \in 0..MaxDuration, known \in BOOLEAN :
    \E series \in [1..n -> BOOLEAN] :
        /\ now = 0
        /\ SimIdle
        /\ loop = [pc |-> "idle"]
        /\ queue = << >>
        /\ gate = [pc |-> "g_start", series |-> series, duration |-> d,
                   stored |-> known, asked |-> 0, delay |-> 0, started |-> 0,
                   diag |-> FALSE, error |-> "none", queries |-> 0,
                   again |-> 0]
        /\ run = [pc |-> "idle"]

NextWeather ==
    \/ ClockAdvances
    \/ RequestWindow
    \/ RequestAgain
    \/ WindowReached

SpecWeather == InitWeather /\ [][NextWeather]_vars

(* ============ dores / saint_brieuc: the registry of vessels ============ *)
\* The simulation objects of one Python session.
Simulations == 1..MaxSimulations

\* The k-th vessel created for simulation object sim.
VesselOf(sim, k) == [sim |-> sim, k |-> k]

\* The vessels 1..n of simulation object sim, in the order of creation.
RECURSIVE Fleet(_, _)
Fleet(sim, n) ==
    IF n = 0 THEN << >> ELSE Append(Fleet(sim, n - 1), VesselOf(sim, n))

\* The elements of a sequence.
Range(q) == {q[i] : i \in 1..Len(q)}

\* No vessel object has been created: `instances = []` in the class body.
\* run.instances is the class attribute InstallationVessel.instances,
\* run.created the simulation objects whose entities exist, run.started the
\* vessels whose process each simulation object has started in its
\* environment, run.ran the simulation objects whose start_simulation has
\* returned.
InitRegistry ==
    /\ now = 0
    /\ SimIdle
    /\ loop = [pc |-> "idle"]
    /\ queue = << >>
    /\ gate = [pc |-> "idle"]
    /\ run = [pc |-> "registry", instances |-> << >>, created |-> {},
              started |-> [sim \in Simulations |-> {}], ran |-> {}]

\* create_entities of simulation object sim: InstallationVessel.__init__
\* appends each new vessel to the list of the class.
CreateEntities(sim, n) ==
    /\ run.pc = "registry"
    /\ sim \notin run.created
    /\ run' = [run EXCEPT !.instances = @ \o Fleet(sim, n),
                          !.created = @ \cup {sim}]
    /\ UNCHANGED <<now, simVars, loop, queue, gate>>

\* start_simulation of simulation object sim: a process in self.env for
\* every vessel on the list of the class, env.run(), and the list is
\* replaced by an empty one.
StartSimulation(sim) ==
    /\ run.pc = "registry"
    /\ sim \in run.created /\ sim \notin run.ran
    /\ run' = [run EXCEPT !.started[sim] = Range(run.instances),
                          !.instances = << >>,
                          !.ran = @ \cup {sim}]
    /\ UNCHANGED <<now, simVars, loop, queue, gate>>

NextRegistry ==
    \/ \E sim \in Simulations, n \in 1..MaxFleet : CreateEntities(sim, n)
    \/ \E sim \in Simulations : StartSimulation(sim)

SpecRegistry == InitRegistry /\ [][NextRegistry]_vars

(* ====================== digital_twin: Activity ========================= *)
\* The origin, the destination and the mover the activities share.
T_ORIGIN == 1
T_DEST == 2
T_MOVER == 3

\* The activities: process a runs installation_process_control of activity
\* a, process StandBy(a) its standing_by.
Twins == DOMAIN act
StandBy(a) == Cardinality(Twins) + a

\* eval(condition) with the containers as in S.
Condition(a, S) ==
    IF act[a].condition = "origin.container.level > 0"
    THEN S.level[T_ORIGIN] > 0
    ELSE 0 < S.level[T_DEST] /\ S.level[T_DEST] < cap[T_DEST]

\* The estimate without the amounts requested earlier.
EstimateByLevels(S, requested) ==
    Min({cap[T_MOVER] - S.level[T_MOVER], S.level[T_ORIGIN],
         cap[T_DEST] - S.level[T_DEST]})

\* installation_process: the amount that should be transported.
Estimate(S, requested) ==
    Min({cap[T_MOVER] - S.level[T_MOVER],
         S.level[T_ORIGIN],
         cap[T_ORIGIN] - requested[T_ORIGIN],
         cap[T_DEST] - S.level[T_DEST],
         cap[T_DEST] - requested[T_DEST]})

\* `while eval(condition): yield from installation_process(...)` entered
\* with containers S at time t: the process ends when the condition is
\* false; else the amount is estimated and either booked on origin and
\* destination and the mover requested, or an hour is waited.
Cycle(a, S, t) ==
    IF ~Condition(a, S)
    THEN /\ Commit(S)
         /\ pc' = [pc EXCEPT ![a] = "t_done"]
         /\ wake' = [wake EXCEPT ![a] = 0 - 1]
         /\ UNCHANGED <<act, run>>
    ELSE LET amount == Estimate(S, run.total_requested)
         IN  IF amount > 0
             THEN /\ run' = [run EXCEPT
                               !.total_requested[T_ORIGIN] = @ + amount,
                               !.total_requested[T_DEST] = @ + amount]
                  /\ act' = [act EXCEPT ![a].amount = amount,
                                        ![a].cycles = @ + 1]
                  /\ Commit(Request(S, T_MOVER, a))
                  /\ pc' = [pc EXCEPT ![a] = "t_mover"]
                  /\ wake' = [wake EXCEPT ![a] = 0 - 1]
             ELSE /\ Commit(S)
                  /\ pc' = [pc EXCEPT ![a] = "t_nothing"]
                  /\ wake' = [wake EXCEPT ![a] = t + 1]
                  /\ act' = [act EXCEPT ![a].amount = 0, ![a].polls = @ + 1]
                  /\ UNCHANGED run

\* installation_process_control starts: it waits for the reactivation
\* event while the condition is false.
ControlStart(a) ==
    /\ a \in Twins /\ pc[a] = "t_start"
    /\ IF ~Condition(a, Cur)
       THEN /\ pc' = [pc EXCEPT ![a] = "t_wait"]
            /\ evt' = [evt EXCEPT ![a] = "pending"]
            /\ UNCHANGED <<wake, level, getq, putq, users, rqueue, log, act,
                           run>>
       ELSE Cycle(a, Cur, now)
    /\ UNCHANGED <<now, cap, rcap, loop, queue, gate>>

\* The reactivation event has been processed: the condition is evaluated
\* again; when it is false the process yields the event that standing_by
\* has put in its place, which nothing triggers.
Reactivated(a) ==
    /\ a \in Twins /\ pc[a] = "t_wait" /\ Ready(a)
    /\ IF ~Condition(a, Cur)
       THEN /\ pc' = [pc EXCEPT ![a] = "t_lost"]
            /\ evt' = [evt EXCEPT ![a] = "pending"]
            /\ UNCHANGED <<wake, level, getq, putq, users, rqueue, log, act,
                           run>>
       ELSE Cycle(a, Resumed(a), now)
    /\ UNCHANGED <<now, cap, rcap, loop, queue, gate>>

\* standing_by starts or wakes from its timeout(3600): it sleeps again
\* while the condition is false and else triggers the reactivation event.
StandingBy(a) ==
    /\ a \in Twins
    /\ \/ pc[StandBy(a)] = "b_start" /\ now' = now
       \/ pc[StandBy(a)] = "b_sleep" /\ TimeoutDue(StandBy(a))
             /\ now' = wake[StandBy(a)]
    /\ IF ~Condition(a, Cur)
       THEN /\ act[a].polls < MaxPolls
            /\ pc' = [pc EXCEPT ![StandBy(a)] = "b_sleep"]
            /\ wake' = [wake EXCEPT ![StandBy(a)] = now' + 1]
            /\ act' = [act EXCEPT ![a].polls = @ + 1]
            /\ UNCHANGED evt
       ELSE /\ pc' = [pc EXCEPT ![StandBy(a)] = "b_done"]
            /\ wake' = [wake EXCEPT ![StandBy(a)] = 0 - 1]
            /\ evt' = [evt EXCEPT ![a] = IF pc[a] = "t_wait"
                                         THEN "triggered" ELSE @]
            /\ UNCHANGED act
    /\ UNCHANGED <<level, getq, putq, users, rqueue, log, run, cap, rcap,
                   loop, queue, gate>>

\* The hour after `Nothing to move` has passed: the condition is evaluated
\* again.
NothingMoved(a) ==
    /\ a \in Twins /\ pc[a] = "t_nothing" /\ TimeoutDue(a)
    /\ act[a].polls < MaxPolls
    /\ now' = wake[a]
    /\ Cycle(a, Cur, wake[a])
    /\ UNCHANGED <<cap, rcap, loop, queue, gate>>

\* The mover's turn has come: it moves to the origin when it is elsewhere,
\* else the loader (the mover itself) takes the amount from the origin.
MoverGranted(a) ==
    /\ a \in Twins /\ pc[a] = "t_mover" /\ Ready(a)
    /\ IF run.mover_at # T_ORIGIN
       THEN /\ Commit(Resumed(a))
            /\ pc' = [pc EXCEPT ![a] = "t_to_origin"]
            /\ wake' = [wake EXCEPT ![a] = now + 1]
       ELSE /\ Commit(DoGet(Resumed(a), T_ORIGIN, a, act[a].amount))
            /\ pc' = [pc EXCEPT ![a] = "t_load_get"]
            /\ UNCHANGED wake
    /\ UNCHANGED <<now, cap, rcap, loop, queue, gate, act, run>>

\* The mover has arrived at the origin: the amount is taken from the origin.
AtOrigin(a) ==
    /\ a \in Twins /\ pc[a] = "t_to_origin" /\ TimeoutDue(a)
    /\ now' = wake[a]
    /\ wake' = [wake EXCEPT ![a] = 0 - 1]
    /\ run' = [run EXCEPT !.mover_at = T_ORIGIN]
    /\ Commit(DoGet(Cur, T_ORIGIN, a, act[a].amount))
    /\ pc' = [pc EXCEPT ![a] = "t_load_get"]
    /\ UNCHANGED <<cap, rcap, loop, queue, gate, act>>

\* The get from the origin returned: the amount is put onto the mover.
LoadTaken(a) ==
    /\ a \in Twins /\ pc[a] = "t_load_get" /\ Ready(a)
    /\ Commit(DoPut(TriggerPut(Resumed(a), T_ORIGIN), T_MOVER, a,
                    act[a].amount))
    /\ pc' = [pc EXCEPT ![a] = "t_load_put"]
    /\ UNCHANGED <<now, wake, cap, rcap, loop, queue, gate, act, run>>

\* The mover is loaded: it moves to the destination.
Loaded(a) ==
    /\ a \in Twins /\ pc[a] = "t_load_put" /\ Ready(a)
    /\ Commit(TriggerGet(Resumed(a), T_MOVER))
    /\ pc' = [pc EXCEPT ![a] = "t_move"]
    /\ wake' = [wake EXCEPT ![a] = now + 1]
    /\ UNCHANGED <<now, cap, rcap, loop, queue, gate, act, run>>

\* The mover has arrived: the unloader takes the amount from the mover.
Moved(a) ==
    /\ a \in Twins /\ pc[a] = "t_move" /\ TimeoutDue(a)
    /\ now' = wake[a]
    /\ wake' = [wake EXCEPT ![a] = 0 - 1]
    /\ run' = [run EXCEPT !.mover_at = T_DEST]
    /\ Commit(DoGet(Cur, T_MOVER, a, act[a].amount))
    /\ pc' = [pc EXCEPT ![a] = "t_unload_get"]
    /\ UNCHANGED <<cap, rcap, loop, queue, gate, act>>

\* The get from the mover returned: the amount is put into the destination.
UnloadTaken(a) ==
    /\ a \in Twins /\ pc[a] = "t_unload_get" /\ Ready(a)
    /\ Commit(DoPut(TriggerPut(Resumed(a), T_MOVER), T_DEST, a,
                    act[a].amount))
    /\ pc' = [pc EXCEPT ![a] = "t_unload_put"]
    /\ UNCHANGED <<now, wake, cap, rcap, loop, queue, gate, act, run>>

\* The mover is unloaded: the `with` block releases the mover and the
\* condition is evaluated again.
Unloaded(a) ==
    /\ a \in Twins /\ pc[a] = "t_unload_put" /\ Ready(a)
    /\ Cycle(a, Release(TriggerGet(Resumed(a), T_DEST), T_MOVER, a), now)
    /\ UNCHANGED <<now, cap, rcap, loop, queue, gate>>

\* Up to MaxTwins activities on one origin, destination and mover, each
\* with its own condition.
InitTwin ==
    \E n \in 1..MaxTwins, have \in 0..MaxHold, filled \in 0..MaxHold,
       deck \in 1..MaxHold, berth \in {T_ORIGIN, T_DEST} :
    \E conds \in [1..n -> {"origin.container.level > 0",
                            "0 < destination.container.level < capacity"}] :
        /\ now = 0
        /\ pc = [p \in 1..(2 * n) |-> IF p <= n THEN "t_start" ELSE "b_start"]
        /\ wake = [p \in 1..(2 * n) |-> 0 - 1]
        /\ evt = [p \in 1..(2 * n) |-> "none"]
        /\ level = <<have, filled, 0>>
        /\ cap = <<MaxHold, MaxHold, deck>>
        /\ getq = << << >>, << >>, << >> >>
        /\ putq = << << >>, << >>, << >> >>
        /\ users = [r \in {T_MOVER} |-> {}]
        /\ rqueue = [r \in {T_MOVER} |-> << >>]
        /\ rcap = [r \in {T_MOVER} |-> 1]
        /\ act = [a \in 1..n |-> [condition |-> conds[a], amount |-> 0,
                                   cycles |-> 0, polls |-> 0]]
        /\ log = Unobserved
        /\ loop = [pc |-> "idle"]
        /\ queue = << >>
        /\ gate = [pc |-> "idle"]
        /\ run = [pc |-> "twin", mover_at |-> berth,
                  total_requested |-> [c \in {T_ORIGIN, T_DEST} |-> 0]]

NextTwin ==
    \/ \E a \in Procs : ControlStart(a)
    \/ \E a \in Procs : Reactivated(a)
    \/ \E a \in Procs : StandingBy(a)
    \/ \E a \in Procs : NothingMoved(a)
    \/ \E a \in Procs : MoverGranted(a)
    \/ \E a \in Procs : AtOrigin(a)
    \/ \E a \in Procs : LoadTaken(a)
    \/ \E a \in Procs : Loaded(a)
    \/ \E a \in Procs : Moved(a)
    \/ \E a \in Procs : UnloadTaken(a)
    \/ \E a \in Procs : Unloaded(a)

SpecTwin == InitTwin /\ [][NextTwin]_vars

(* ============================== properties ============================= *)
\* C1: every container keeps 0 <= level <= capacity, and a request that cannot
\* be served stays in its queue with its requester suspended.
ContainerBounds ==
    /\ \A c \in DOMAIN level : 0 <= level[c] /\ level[c] <= cap[c]
    /\ \A c \in DOMAIN level :
         /\ \A i \in 1..Len(getq[c]) : evt[getq[c][i].pid] = "pending"
         /\ \A i \in 1..Len(putq[c]) : evt[putq[c][i].pid] = "pending"

\* A put is blocked on a full container.
ContainerBoundsWitness ==
    \E c \in DOMAIN level : putq[c] # << >> /\ level[c] = cap[c]

\* C2: the permits granted on a resource never exceed its capacity, and every
\* vessel between its berth GRANTED entry and the end of its loading holds one
\* of the port's permits.
PermitsWithinCapacity ==
    /\ \A r \in DOMAIN users : Cardinality(users[r]) <= rcap[r]
    /\ {v \in Procs : pc[v] \in LoadingPcs} \subseteq users[PORT]
    /\ Cardinality({v \in Procs : pc[v] \in LoadingPcs}) <= rcap[PORT]

\* One berth: a vessel loads while another queues for the berth.
PermitsWithinCapacityWitness ==
    /\ rcap[PORT] = 1
    /\ rqueue[PORT] # << >>
    /\ \E v \in Procs : pc[v] \in LoadingPcs

\* The activity holds the three permits of its reservation.
HoldsAll(a, u) ==
    /\ a \in u[act[a].dest]
    /\ a \in u[act[a].proc]
    /\ a \in u[act[a].origin]

\* C3: the reservation ends and the shift begins only from the grant of the
\* origin's resource, with the destination's, the processor's and the origin's
\* permits held and the origin's level at least the amount.
ShiftBeginsReserved ==
    [][\A a \in Procs :
         (pc[a] # "s_get" /\ pc'[a] = "s_get" /\ act[a].amount > 0)
         => /\ pc[a] = "s_wait_orig"
            /\ HoldsAll(a, users)
            /\ HoldsAll(a, users')
            /\ level[act[a].origin] >= act[a].amount]_vars

\* An activity has begun its shift while another one is still reserving.
ShiftBeginsReservedWitness ==
    \E a \in Procs : \E b \in Procs :
        /\ pc[a] = "s_get"
        /\ HoldsAll(a, users)
        /\ pc[b] \in {"s_wait_avail", "s_wait_proc", "s_wait_orig"}

\* The activity holds the processor's resource and is about to check the level.
Acquired(a) ==
    \/ pc[a] \in {"s_wait_proc", "s_wait_orig"}
    \/ pc[a] = "s_wait_avail" /\ a \in users[act[a].proc]

\* C4: an activity that is resumed after acquiring the processor's or the
\* origin's resource and finds the origin below its amount gives the
\* processor's and the origin's permits back and waits on get_available again.
StaleRetries ==
    [][\A a \in Procs :
         (/\ Acquired(a)
          /\ Ready(a)
          /\ pc'[a] # pc[a] \/ evt'[a] # evt[a]
          /\ level[act[a].origin] < act[a].amount)
         => /\ pc'[a] = "s_wait_avail"
            /\ a \notin users'[act[a].proc]
            /\ a \notin users'[act[a].origin]]_vars

\* The origin's resource has been granted to an activity whose amount is no
\* longer in the origin.
StaleRetriesWitness ==
    \E a \in Procs :
        /\ pc[a] = "s_wait_orig"
        /\ Ready(a)
        /\ a \in users[act[a].origin]
        /\ level[act[a].origin] < act[a].amount

\* All activities use the same destination, processor and origin.
SharedAll ==
    \A a \in Procs : \A b \in Procs :
        /\ act[a].dest = act[b].dest
        /\ act[a].proc = act[b].proc
        /\ act[a].origin = act[b].origin

\* The activity is suspended on a resource request that is not granted.
WaitsForPermit(a) ==
    /\ pc[a] \in {"s_wait_dest", "s_wait_proc", "s_wait_orig"}
    /\ evt[a] = "pending"

\* C5: activities that share their three resources never all wait for a
\* permit, and no resource is granted beyond its capacity.
NoPermitDeadlock ==
    SharedAll =>
        /\ \A r \in DOMAIN users : Cardinality(users[r]) <= rcap[r]
        /\ LET unfinished == {a \in Procs : pc[a] \notin {"s_done", "failed"}}
           IN  unfinished # {} => \E a \in unfinished : ~WaitsForPermit(a)

\* One activity shifts while another one, sharing all of its resources, queues
\* for the destination.
NoPermitDeadlockWitness ==
    /\ SharedAll
    /\ \E a \in Procs : \E b \in Procs :
        /\ pc[a] = "s_timeout"
        /\ HoldsAll(a, users)
        /\ WaitsForPermit(b)

\* C6: with a condition event that is never triggered, the While activity
\* ends after exactly max_iterations passes: every sub-activity has then run
\* max_iterations times, and none ever runs more often.
WhileStopsAtCap ==
    loop.pc # "idle" =>
        /\ \A i \in DOMAIN loop.runs : loop.runs[i] <= loop.max
        /\ (loop.pc \in {"w_final", "w_done"} /\ loop.cond = "pending")
           => /\ loop.ii = loop.max
              /\ \A i \in DOMAIN loop.runs : loop.runs[i] = loop.max

\* A loop over two sub-activities has ended at a cap of at least 2, its
\* condition never triggered.
WhileStopsAtCapWitness ==
    /\ loop.pc = "w_done"
    /\ loop.cond = "pending"
    /\ loop.max >= 2
    /\ Len(loop.durs) >= 2

\* C7: when the condition event is triggered while a sub-activity of pass k
\* runs, no sub-activity runs more than k times, and when the loop has ended
\* every sub-activity has run exactly k times.
WhileFinishesPass ==
    (loop.pc # "idle" /\ loop.trigPass > 0) =>
        /\ \A i \in DOMAIN loop.runs : loop.runs[i] <= loop.trigPass
        /\ loop.pc \in {"w_sub", "w_pause"} => loop.ii < loop.trigPass
        /\ loop.pc \in {"w_final", "w_done"}
           => /\ loop.ii = loop.trigPass
              /\ \A i \in DOMAIN loop.runs : loop.runs[i] = loop.trigPass

\* The condition was triggered during the first sub-activity of pass 2 of a
\* loop over two sub-activities that could have gone on, and the loop ended.
WhileFinishesPassWitness ==
    /\ loop.pc = "w_done"
    /\ loop.trigPass = 2
    /\ loop.max > 2
    /\ Len(loop.durs) >= 2

\* The limit series of the hourly scenario and its required two hours.
ScenarioSeries == <<FALSE, FALSE, TRUE, TRUE, FALSE, FALSE>>
ScenarioDuration == 2 * SampleStep

\* The gate has computed a delay for the time it was asked at.
Asked == gate.pc \in {"g_wait", "g_run"}

\* The run of consecutive non-exceeded samples that begins at sample i lasts
\* one sample step per sample, whether or not a block follows it.
RunEnd(series, i) ==
    LET later == {j \in BlockStarts(series) : j > i}
    IN  IF later = {} THEN Len(series) + 1 ELSE Min(later)

SafeRuns(series) == {i \in BlockStarts(series) : ~series[i]}

SuitableRuns(series, t, duration) ==
    {i \in SafeRuns(series) :
        /\ Timestamp(i) >= t
        /\ Timestamp(RunEnd(series, i)) - Timestamp(i) >= duration}

\* C8: find_window returns (start of W) - now for the earliest run W of
\* non-exceeded samples that starts at or after now and lasts at least
\* duration; in the hourly scenario asked at hour 0 the delay is 0.
DelayToEarliestRun ==
    Asked =>
        /\ SuitableRuns(gate.series, gate.asked, gate.duration) # {}
           => gate.delay =
                Timestamp(Min(SuitableRuns(gate.series, gate.asked,
                                           gate.duration))) - gate.asked
        /\ (gate.series = ScenarioSeries /\ gate.duration = ScenarioDuration
            /\ gate.asked = 0) => gate.delay = 0

\* C9: in the hourly scenario an activity started at hour 2 is delayed until
\* hour 4, where the next safe window starts, although that window is the
\* last block of the data.
DelayedToLastWindow ==
    (Asked /\ gate.series = ScenarioSeries /\ gate.duration = ScenarioDuration
     /\ gate.asked = Timestamp(3))
        => gate.delay = Timestamp(5) - gate.asked

\* C10: asked at a time inside a non-exceeded window (at or after its first
\* timestamp) of which at least duration remains, the gate returns 0 and the
\* activity starts at once.
NoDelayInsideWindow ==
    (/\ Asked
     /\ \E i \in SafeRuns(gate.series) :
           /\ Timestamp(i) <= gate.asked
           /\ gate.asked < Timestamp(RunEnd(gate.series, i))
           /\ Timestamp(RunEnd(gate.series, i)) - gate.asked >= gate.duration)
        => /\ gate.delay = 0
           /\ gate.pc = "g_run" => gate.started = gate.asked

\* C11: when the data holds no non-exceeded window of sufficient length at
\* or after the current time, find_window prints its diagnostic and returns
\* 0, the activity runs at the time it asked, and the gate does not fail.
FallbackZeroDelay ==
    /\ (Asked /\ SuitableRuns(gate.series, gate.asked, gate.duration) = {})
       => /\ gate.diag
          /\ gate.delay = 0
          /\ gate.pc = "g_run" => gate.started = gate.asked
    /\ (gate.pc = "g_failed") => ~gate.stored

\* The gate was asked inside the exceeded block that ends the data, and the
\* activity has started.
FallbackZeroDelayWitness ==
    /\ gate.pc = "g_run"
    /\ SuitableRuns(gate.series, gate.asked, gate.duration) = {}
    /\ Len(gate.series) >= 3
    /\ ~gate.series[1]
    /\ gate.series[Len(gate.series)]
    /\ gate.asked >= Timestamp(Len(gate.series))

\* The limit is exceeded at time t: the sample stamped t, or else the latest
\* sample before t, says so (no sample, no exceedance).
ExceededAt(series, t) ==
    \E i \in 1..Len(series) :
        /\ Timestamp(i) <= t
        /\ t < Timestamp(i + 1)
        /\ series[i]

AheadOf(q, p) ==
    LET at == {j \in DOMAIN q : q[j].pid = p}
    IN  {q[i] : i \in {k \in DOMAIN q : \A j \in at : k < j}}

\* The request of p is granted in this step.
GrantedNow(p) ==
    /\ evt'[p] = "triggered"
    /\ evt[p] # "triggered" \/ act'[p].requests # act[p].requests

\* The requests in queue q.
StillWaiting(q) == {q[i] : i \in DOMAIN q}

\* C13: requests of one kind on the same container are granted strictly in
\* submission order: when a get (a put) is granted, no get (put) submitted
\* before it is left waiting, even if the later amount was satisfiable first.
GrantedInSubmissionOrder ==
    [][\A p \in Procs :
          /\ (GrantedNow(p) /\ pc'[p] = "c_get")
             => AheadOf(getq[STORE], p) \cap StillWaiting(getq'[STORE]) = {}
          /\ (GrantedNow(p) /\ pc'[p] = "c_put")
             => AheadOf(putq[STORE], p) \cap StillWaiting(putq'[STORE]) = {}
      ]_vars

\* A later, smaller get is satisfiable and waits behind an earlier get that
\* is not.
GrantedInSubmissionOrderWitness ==
    /\ STORE \in DOMAIN getq
    /\ Len(getq[STORE]) = 2
    /\ ~CanGet(level[STORE], getq[STORE][1].amount)
    /\ CanGet(level[STORE], getq[STORE][2].amount)

\* The vessel has been granted a berth at least once.
Berthed(v) == v \in users[PORT] \/ pc[v] \notin {"start", "wait_berth"}

\* C14: of two vessels started at the same time in the order 1 then 2,
\* vessel 1 is granted the berth first; a waiting vessel is granted a berth
\* in the very step a berth is released, the clock stands still until it has
\* resumed, and the vessel granted is the one that has waited longest.
BerthToLongestWaiting ==
    [][/\ (PORT \in DOMAIN users /\ 2 \in Procs /\ now = 0 /\ ~Berthed(1))
          => ~(2 \in users'[PORT])
       /\ \A v \in Procs :
            (PORT \in DOMAIN users /\ v \in StillWaiting(rqueue[PORT])
             /\ v \in users'[PORT])
            => /\ v = Head(rqueue[PORT])
               /\ users[PORT] \ users'[PORT] # {}
       /\ (PORT \in DOMAIN users
           /\ \E v \in Procs : Ready(v) /\ pc[v] = "wait_berth")
          => now' = now
      ]_vars

\* At the only berth, a vessel that waited with another vessel queued behind
\* it has been granted the berth a holder released, and has not yet resumed.
BerthToLongestWaitingWitness ==
    /\ PORT \in DOMAIN users
    /\ rcap[PORT] = 1
    /\ rqueue[PORT] # << >>
    /\ now > 0
    /\ \E v \in users[PORT] : Ready(v) /\ pc[v] = "wait_berth"

\* The amounts of the requests of the given kind granted in this step.
GrantedAmount(kind) ==
    SumOver([p \in Procs |-> IF GrantedNow(p) /\ pc'[p] = kind
                             THEN act'[p].amount ELSE 0], Procs)

\* A put (get) of some process is granted at the current time: granted
\* earlier at this time and processed in this step or still to be processed,
\* or granted in this very step.
GrantedAtThisTime(kind) ==
    \E q \in Procs : \/ pc[q] = kind /\ Ready(q)
                     \/ pc'[q] = kind /\ GrantedNow(q)

\* C15: a get is granted only when the level covers its amount and takes
\* exactly that amount, a put only when the free room covers its amount and
\* adds exactly that amount; a waiting request is granted at the virtual time
\* of the put (get) that makes it satisfiable, not before, and does not stay
\* waiting beyond it.
GetPutBlockThenMove ==
    [][/\ level'[STORE] =
            level[STORE] + GrantedAmount("c_put") - GrantedAmount("c_get")
       /\ level'[STORE] >= 0 /\ level'[STORE] <= cap[STORE]
       /\ \A p \in Procs :
            /\ (GrantedNow(p) /\ evt[p] = "pending" /\ pc[p] = "c_get")
               => GrantedAtThisTime("c_put")
            /\ (GrantedNow(p) /\ evt[p] = "pending" /\ pc[p] = "c_put")
               => GrantedAtThisTime("c_get")
            /\ Ready(p) => now' = now
       /\ (getq'[STORE] # << >>
           /\ CanGet(level'[STORE], Head(getq'[STORE]).amount))
          => \E q \in Procs : pc'[q] = "c_put" /\ evt'[q] = "triggered"
       /\ (putq'[STORE] # << >>
           /\ CanPut(level'[STORE], cap[STORE], Head(putq'[STORE]).amount))
          => \E q \in Procs : pc'[q] = "c_get" /\ evt'[q] = "triggered"
      ]_vars

\* Capacity 5, level 5: the second get(3) of a process has waited and is
\* granted at a later time than it was issued, after a put.
GetPutBlockThenMoveWitness ==
    /\ STORE \in DOMAIN level
    /\ cap[STORE] = 5
    /\ \E p \in Procs :
          /\ act[p].init = 5
          /\ pc[p] = "c_get"
          /\ Ready(p)
          /\ act[p].requests = 2
          /\ act[p].amount = 3
          /\ act[p].start_time < now
          /\ level[STORE] = 2

\* main_process_function of activity a goes on with a determined amount.
Determines(a) == pc[a] = "s_start" /\ pc'[a] = "s_wait_dest"

\* min(destination free capacity, origin level, the cap given at construction).
MinOfThree(a) ==
    Min({cap[act[a].dest] - level[act[a].dest], level[act[a].origin]}
        \cup (IF act[a].user.given THEN {act[a].user.amount} ELSE {}))

\* C17: on every execution of a ShiftAmount activity, the first and the later
\* ones of the same object in a Repeat/While loop, the amount to transfer is
\* min(destination free capacity, origin level, user-supplied cap) (for a cap
\* that is absent or positive), and that amount is what the get takes.
AmountIsMinOfThree ==
    [][\A a \in Procs :
          /\ (Determines(a) /\ (act[a].user.given => act[a].user.amount > 0))
             => act'[a].amount = MinOfThree(a)
          /\ (pc[a] # "s_get" /\ pc'[a] = "s_get" /\ act[a].amount > 0)
             => \/ evt'[a] = "triggered"
                   /\ level'[act[a].origin] =
                        level[act[a].origin] - act[a].amount
                \/ /\ evt'[a] = "pending"
                   /\ \E i \in DOMAIN getq'[act[a].origin] :
                        getq'[act[a].origin][i] =
                            [pid |-> a, amount |-> act[a].amount]
      ]_vars

\* main_process_function of activity a runs up to its first yield or fails.
ShiftStarts(a) == pc[a] = "s_start" /\ pc'[a] # "s_start"

\* The step fails activity a and leaves every container, resource and event
\* as it was.
FailsUntouched(a, error) ==
    /\ pc'[a] = "failed"
    /\ act'[a].error = error
    /\ UNCHANGED <<level, getq, putq, users, rqueue, evt>>

\* C18: a ShiftAmount activity started with an empty origin or a full
\* destination fails at once with the empty-origin / full-destination error:
\* no resource is requested, no level changes, it does not wait.
EmptyOrFullFailsFast ==
    [][\A a \in Procs :
          (/\ ShiftStarts(a)
           /\ act[a].colocated
           /\ \/ level[act[a].origin] = 0
              \/ level[act[a].dest] = cap[act[a].dest])
          => FailsUntouched(a, "empty_or_full")
      ]_vars

\* An activity has failed on its empty origin while the destination had room.
EmptyOrFullFailsFastWitness ==
    \E a \in Procs :
        /\ pc[a] = "failed"
        /\ act[a].error = "empty_or_full"
        /\ level[act[a].origin] = 0
        /\ level[act[a].dest] < cap[act[a].dest]
        /\ \A r \in DOMAIN users : a \notin users[r]

\* C19: a ShiftAmount whose determined amount is <= 0 (a user cap of zero or
\* less) fails the run: it reserves nothing, logs no START, moves nothing.
NonPositiveAmountFails ==
    [][\A a \in Procs :
          (ShiftStarts(a) /\ act[a].colocated /\ DetermineAmount(a) <= 0)
          => FailsUntouched(a, "empty_or_full")
      ]_vars

\* C20: an activity whose processor or destination is not at the origin when
\* it starts fails on the assertion before any resource is requested or any
\* level changes, and processor.process issues its get only with processor
\* and destination at the origin.
LocationAsserted ==
    [][\A a \in Procs :
          /\ (ShiftStarts(a) /\ ~act[a].colocated)
             => FailsUntouched(a, "assertion")
          /\ (pc[a] # "s_get" /\ pc'[a] = "s_get") => act[a].colocated
          /\ (pc[a] \in {"s_wait_dest", "s_wait_avail", "s_wait_proc",
                         "s_wait_orig"}
              /\ pc'[a] # pc[a] /\ ~act[a].colocated)
             => /\ pc'[a] \in {"failed", "s_wait_avail", "s_wait_proc",
                               "s_wait_orig"}
                /\ level' = level
      ]_vars

\* The destination moved away during the reservation: processor.process has
\* failed on its assertion, the activity still holding the destination.
LocationAssertedWitness ==
    \E a \in Procs :
        /\ pc[a] = "failed"
        /\ act[a].error = "assertion"
        /\ a \in users[act[a].dest]

\* The shift of activity a completes in this step.
Completes(a) == pc[a] = "s_put" /\ pc'[a] = "s_done"

\* The resources activity a deals with.
ResourcesOf(a) == {act[a].dest, act[a].origin, act[a].proc}

\* Position of resource r in the order destination, origin, processor.
Rank(a, r) == IF r = act[a].dest THEN 1 ELSE IF r = act[a].origin THEN 2 ELSE 3

\* C21: when the shift of a ShiftAmount activity completes, the permits it
\* holds and does not keep are released, each once, destination before origin
\* before processor; afterwards it holds exactly the resources of
\* keep_resources that it held before.
ReleasedInFixedOrder ==
    [][\A a \in Procs : Completes(a) =>
          LET rel == act'[a].released
          IN  /\ {rel[i] : i \in DOMAIN rel}
                   = {r \in ResourcesOf(a) : a \in users[r] /\ r \notin act[a].keep}
              /\ \A i \in DOMAIN rel : \A j \in DOMAIN rel :
                     i < j => Rank(a, rel[i]) < Rank(a, rel[j])
              /\ \A r \in ResourcesOf(a) :
                     a \in users'[r] <=> (a \in users[r] /\ r \in act[a].keep)
      ]_vars

\* An activity has completed its shift, has released two permits and still
\* holds the one it keeps.
ReleasedInFixedOrderWitness ==
    \E a \in Procs :
        /\ pc[a] = "s_done"
        /\ Len(act[a].released) = 2
        /\ \E r \in ResourcesOf(a) : r \in act[a].keep /\ a \in users[r]

\* Process p holds a permit of some resource or waits for one.
HoldsPermit(p) ==
    \E r \in DOMAIN users :
        p \in users[r] \/ \E i \in DOMAIN rqueue[r] : rqueue[r][i] = p

\* A vessel that has left load_component no longer holds the berth.
BerthReleasedAfterLoad ==
    \A v \in Procs :
        pc[v] \in {"nav_to_owf", "inst_get", "inst_put", "inst_timeout", "done"}
            => v \notin users[PORT]

\* C22: an activity that has ended, normally with nothing kept or by a
\* failure, holds no permit, and a vessel that has ended load_component does
\* not hold the berth.
ReleasedOnEveryExit ==
    /\ \A a \in Procs :
          (pc[a] = "failed" \/ (pc[a] = "s_done" /\ act[a].keep = {}))
              => ~HoldsPermit(a)
    /\ BerthReleasedAfterLoad

\* The same for the exits that are not failures.
ReleasedOnNormalExit ==
    /\ \A a \in Procs : (pc[a] = "s_done" /\ act[a].keep = {}) => ~HoldsPermit(a)
    /\ BerthReleasedAfterLoad

\* C23: a Repeat activity with repetitions = n runs its sub-activities in
\* list order, pass after pass, and when its loop has ended it has made
\* exactly n passes: every sub-activity has run exactly n times.
RepeatRunsExactly ==
    loop.pc # "idle" /\ loop.kind = "repeat" =>
        /\ \A i \in DOMAIN loop.runs : \A j \in DOMAIN loop.runs :
              i < j => loop.runs[j] <= loop.runs[i] /\ loop.runs[i] <= loop.runs[j] + 1
        /\ \A i \in DOMAIN loop.runs : loop.runs[i] <= loop.max
        /\ loop.pc \in {"w_final", "w_done"}
           => /\ loop.ii = loop.max
              /\ \A i \in DOMAIN loop.runs : loop.runs[i] = loop.max

\* A Repeat activity over two sub-activities has ended after two or more
\* repetitions.
RepeatRunsExactlyWitness ==
    /\ loop.pc = "w_done"
    /\ loop.kind = "repeat"
    /\ loop.max >= 2
    /\ Len(loop.durs) >= 2
    /\ loop.runs[2] = loop.max

\* Some sub-activity of the composite is constructed without postpone_start.
EagerSub == \E i \in DOMAIN loop.postponed : ~loop.postponed[i]

\* C24: a While or Repeat activity with a sub-activity whose postpone_start
\* is false raises in its constructor: its process is never registered and
\* never runs.
EagerSubRaises ==
    (loop.pc # "idle" /\ EagerSub) =>
        /\ loop.pc \in {"w_new", "w_raised"}
        /\ queue = << >>
        /\ \A i \in DOMAIN loop.runs : loop.runs[i] = 0

\* The constructor of a composite of two sub-activities, the second of them
\* without postpone_start, has raised.
EagerSubRaisesWitness ==
    /\ loop.pc = "w_raised"
    /\ Len(loop.durs) = 2
    /\ loop.postponed[1] /\ ~loop.postponed[2]

MissingVariableIsFatal ==
    (~gate.stored /\ gate.pc \notin {"idle", "g_start"}) =>
        /\ gate.pc = "g_failed"
        /\ gate.error = "KeyError"
        /\ ~gate.diag
        /\ gate.queries = 0

\* find_window has failed on a series without any workable window, where
\* the fallback would have returned 0.
MissingVariableIsFatalWitness ==
    /\ gate.pc = "g_failed"
    /\ gate.error = "KeyError"
    /\ gate.duration > 0
    /\ NoWindow(gate.series, gate.asked, gate.duration)

\* The request of process p returns in this step.
Returns(p) ==
    /\ pc[p] \in {"c_get", "c_put"}
    /\ Ready(p)
    /\ pc'[p] # pc[p] \/ act'[p].requests # act[p].requests

\* C28: a get or put notes the time it is issued; it is granted at the time
\* at which it returns; when it returns, WAIT_START at the time of issue and
\* WAIT_STOP at the time of the grant are logged if the two times differ,
\* and nothing is logged if they are the same.
WaitLoggedIffTimePassed ==
    [][\A p \in Procs :
          /\ act'[p].requests # act[p].requests => act'[p].start_time = now'
          /\ Ready(p) => now' = now
          /\ Returns(p) =>
                /\ act'[p].wait # << >> <=> act[p].start_time < now
                /\ act'[p].wait # << >> => act'[p].wait = <<act[p].start_time, now>>
      ]_vars

\* A put that had to wait for a get issued one time unit later has returned
\* and logged its wait.
WaitLoggedIffTimePassedWitness ==
    \E p \in Procs :
        /\ act[p].wait = <<0, 1>>
        /\ act[p].init = MaxCapacity
        /\ now = 1

\* C29: the exception that leaves the run entry point names the activity
\* that failed or one of its sites.
RaisedCarriesIdentity ==
    run.pc = "raised" =>
        \E x \in run.names :
            x \in {act[run.offender].origin, act[run.offender].dest,
                   act[run.offender].proc}

\* The same for a run started through start_simulation that fails on an
\* empty origin or a full destination.
RaisedNamesSitesOfEmptyOrFull ==
    (/\ run.pc = "raised"
     /\ run.entry = "start_simulation"
     /\ act[run.offender].error = "empty_or_full")
        => run.names = {act[run.offender].origin, act[run.offender].dest}

\* restart_simulation is called in this step.
Restarts == run'.restarts # run.restarts

\* C30: restart_simulation leaves the clock at the new epoch, every container
\* at the level of the model definition, every resource with all its permits
\* free and nobody waiting, and every process at its start with no event of
\* the previous run pending.
RestartRebuilds ==
    [][Restarts =>
          /\ now' = MaxEpoch
          /\ level' = run.levels
          /\ \A c \in DOMAIN level : getq'[c] = << >> /\ putq'[c] = << >>
          /\ \A r \in DOMAIN users : users'[r] = {} /\ rqueue'[r] = << >>
          /\ \A a \in Procs :
                /\ pc'[a] = "s_start"
                /\ evt'[a] = "none"
                /\ wake'[a] < 0
                /\ act'[a].amount = act[a].user.amount
                /\ act'[a].given = act[a].user.given
      ]_vars

\* The simulation was restarted from a run that had moved content and that
\* ended with a permit still held, at another time than the new epoch.
RestartRebuildsWitness ==
    /\ run.pc = "running"
    /\ run.restarts = 1
    /\ run.dirty
    /\ now = MaxEpoch
    /\ \A a \in Procs : pc[a] = "s_start"

\* The work is done: the port and the decks are empty, the site holds n
\* components and every vessel's process has ended.
Exhausted(n) ==
    /\ level[PORT] = 0
    /\ level[OWF] = n
    /\ \A v \in Procs : level[v] = 0 /\ pc[v] = "done"

\* C31: from a port holding N >= 1 components and a site with room for
\* them, the simulation eventually has the port and every deck empty, N
\* components on the site and every vessel's process ended.
VesselsFinish ==
    \A n \in 1..MaxStock :
        (level[PORT] = n /\ cap[OWF] >= n) => <>Exhausted(n)

\* The same for a single vessel.
OneVesselFinishes ==
    \A n \in 1..MaxStock :
        (level[PORT] = n /\ cap[OWF] >= n /\ Cardinality(Procs) = 1)
            => <>Exhausted(n)

\* Whatever the number of vessels, the components end up on the site.
ComponentsArrive ==
    \A n \in 1..MaxStock :
        (level[PORT] = n /\ cap[OWF] >= n)
            => <>(level[PORT] = 0 /\ level[OWF] = n)

\* The columns of the event log.
Columns == DOMAIN log

\* The number of entries recorded.
Entries == Len(log.Timestamp)

\* C32: the event log is append-only.  Every column has the same length
\* after every step, and a step leaves each entry that was already
\* recorded where and as it was: whatever it logs is added at the end.
LogAppendOnly ==
    [][/\ \A c \in Columns : Len(log'[c]) = Len(log'.Timestamp)
       /\ \A c \in Columns :
            /\ Len(log'[c]) >= Len(log[c])
            /\ SubSeq(log'[c], 1, Len(log[c])) = log[c]]_vars

\* Two vessels have written to the log in turn.
LogAppendOnlyWitness ==
    \E i, j \in 1..Entries :
        i + 1 < j /\ log.ID[i] # log.ID[i + 1] /\ log.ID[j] = log.ID[i]

\* The content activity a has taken from its origin and not yet put into its
\* destination.
InTransit(a) ==
    IF \/ pc[a] = "s_get" /\ evt[a] = "triggered"
       \/ pc[a] = "s_timeout"
       \/ pc[a] = "s_put" /\ evt[a] = "pending"
    THEN Abs(act[a].amount) ELSE 0

\* The content of all sites and all transfers.
TotalContent ==
    SumOver([c \in Sites |-> level[c]], Sites)
        + SumOver([a \in Procs |-> InTransit(a)], Procs)

\* The positions of the entries of activity a in `state` on the log of o.
EntriesOf(o, a, state) ==
    {i \in 1..Len(log[o]) :
        log[o][i].ActivityID = a /\ log[o][i].ActivityState = state}

\* Processor, origin and destination of activity a.
Parts(a) == {act[a].proc, act[a].origin, act[a].dest}

\* START is on the logs of the three parts from the get on, STOP once the
\* put has returned, and START precedes STOP.
StartStopLogged(a) ==
    \A o \in Parts(a) :
        /\ Cardinality(EntriesOf(o, a, "START")) =
               IF pc[a] \in {"s_get", "s_timeout", "s_put", "s_done"}
               THEN 1 ELSE 0
        /\ Cardinality(EntriesOf(o, a, "STOP")) =
               IF pc[a] = "s_done" THEN 1 ELSE 0
        /\ \A i \in EntriesOf(o, a, "START"), j \in EntriesOf(o, a, "STOP") :
               i < j

\* C33: Processor.process takes the amount from the origin, lets the
\* duration elapse and then puts the amount into the destination: the
\* content of the sites plus the content in transit never changes, the
\* duration has elapsed between get and put, START is logged on processor,
\* origin and destination once the get is issued and STOP only after the
\* put has returned.
ProcessMovesAmount ==
    [][/\ TotalContent' = TotalContent
       /\ \A a \in Procs :
            /\ StartStopLogged(a)'
            /\ pc'[a] = "s_put" /\ pc[a] # "s_put"
                  => pc[a] = "s_timeout" /\ now' = wake[a]
            /\ pc'[a] = "s_timeout" /\ pc[a] # "s_timeout"
                  => /\ pc[a] = "s_get"
                     /\ wake'[a] = now + act[a].duration]_vars

\* A transfer with three distinct parts has completed while another one is
\* under way.
ProcessMovesAmountWitness ==
    \E a, b \in Procs :
        /\ pc[a] = "s_done" /\ Cardinality(Parts(a)) = 3
        /\ level[act[a].dest] > 0
        /\ InTransit(b) > 0

\* The room left in the destination of activity a.
FreeAtDestination(a) == cap[act[a].dest] - level[act[a].dest]

\* C34: the reservation re-checks the origin's level only.  A step in
\* which the processor's or the origin's resource is granted sends the
\* activity back to waiting for content exactly when the origin holds less
\* than the amount, whatever room the destination has left; a put for which
\* the destination has no room stays pending and changes no level, and the
\* destination never exceeds its capacity.
ReservationIgnoresDestination ==
    [][\A a \in Procs :
        /\ pc[a] \in {"s_wait_proc", "s_wait_orig"} /\ pc'[a] # pc[a]
              => (pc'[a] = "s_wait_avail"
                    <=> level[act[a].origin] < act[a].amount)
        /\ pc[a] # "s_put" /\ pc'[a] = "s_put"
                /\ FreeAtDestination(a) < act[a].amount
              => /\ evt'[a] = "pending"
                 /\ level'[act[a].dest] = level[act[a].dest]
        /\ level'[act[a].dest] <= cap[act[a].dest]]_vars

\* An activity has completed its reservation and its get although the
\* destination was filled after its amount was determined: its put waits.
ReservationIgnoresDestinationWitness ==
    \E a \in Procs :
        /\ pc[a] = "s_put" /\ evt[a] = "pending"
        /\ FreeAtDestination(a) < act[a].amount
        /\ \A r \in Parts(a) : a \in users[r]

\* The positions at which an activity waits inside the reservation.
ReservingPcs == {"s_start", "s_wait_dest", "s_wait_avail", "s_wait_proc",
                 "s_wait_orig"}

\* Activity a has a request pending in the get or put queue of a site.
Queued(a) ==
    \E c \in Sites :
        \/ \E i \in 1..Len(getq[c]) : getq[c][i].pid = a
        \/ \E i \in 1..Len(putq[c]) : putq[c][i].pid = a

\* Activity a waits on weather: it holds the permits of its destination,
\* processor and origin, has logged the start of the wait but not START,
\* and has nothing taken from or requested of a container.
WaitsReserved(a) ==
    /\ \A r \in Parts(a) : a \in users[r]
    /\ EntriesOf(ActivityLog(a), a, "WAIT_START") # {}
    /\ EntriesOf(ActivityLog(a), a, "START") = {}
    /\ \A o \in Parts(a) : EntriesOf(o, a, "START") = {}
    /\ ~Queued(a) /\ InTransit(a) = 0

\* C35: the weather wait of a gated ShiftAmount lies between the
\* reservation and START.  The wait is entered from the reservation, for
\* the delay the gate computed; during the wait the activity holds its
\* three permits and has neither logged START nor touched a container; the
\* step that ends the wait is taken when the delay has elapsed, logs START
\* with that time and issues the get.
WaitBetweenReservationAndStart ==
    [][\A a \in Procs :
        /\ pc'[a] = "s_delay" => WaitsReserved(a)'
        /\ pc[a] # "s_delay" /\ pc'[a] = "s_delay"
              => /\ pc[a] \in ReservingPcs
                 /\ wake'[a] = now + act[a].delay
        /\ pc[a] = "s_delay" /\ pc'[a] # "s_delay"
              => /\ now' = wake[a]
                 /\ pc'[a] = "s_get"
                 /\ \E i \in EntriesOf(ActivityLog(a), a, "START")' :
                        log'[ActivityLog(a)][i].Timestamp = wake[a]]_vars

\* An activity waits on weather for a positive time while another one
\* queues for a permit it holds.
WaitBetweenReservationAndStartWitness ==
    \E a \in Procs :
        /\ pc[a] = "s_delay" /\ act[a].delay > 0
        /\ \E r \in Parts(a) : rqueue[r] # << >>

\* C40: in every entity log and every activity log the timestamps of the
\* entries never decrease in the order in which they were appended.
TimestampsOrdered ==
    \A o \in DOMAIN log :
        \A i, j \in 1..Len(log[o]) :
            i < j => log[o][i].Timestamp <= log[o][j].Timestamp

\* The same for the logs to which a single activity has written.
TimestampsOrderedAlone ==
    \A o \in DOMAIN log :
        (\A i, j \in 1..Len(log[o]) : log[o][i].ActivityID = log[o][j].ActivityID)
            => \A i, j \in 1..Len(log[o]) :
                  i < j => log[o][i].Timestamp <= log[o][j].Timestamp

\* A processor has recorded a wait in retrospect.
WaitRecorded ==
    \E o \in DOMAIN log : \E i \in 1..Len(log[o]) :
        log[o][i].ActivityState = "WAIT_START" /\ o <= CRANE

\* The event log of the vessels: the timestamps never decrease.
VesselTimestampsOrdered ==
    \A i, j \in 1..Len(log.Timestamp) :
        i < j => log.Timestamp[i] <= log.Timestamp[j]

\* C36: a While or Repeat activity with max_iterations >= 1 executes at
\* least one full pass over its sub-activities, also when its condition
\* already holds when it starts: once the loop is left, every sub-activity
\* has run.
AtLeastOnePass ==
    loop.pc \in {"w_final", "w_done"} /\ loop.max >= 1
        => \A k \in DOMAIN loop.runs : loop.runs[k] >= 1

\* A While activity whose condition held before it started has ended after
\* one pass over several sub-activities.
AtLeastOnePassWitness ==
    /\ loop.pc = "w_done" /\ loop.kind = "while" /\ loop.max >= 2
    /\ loop.cond = "processed" /\ loop.trigPass = 0
    /\ Len(loop.durs) = MaxSubs
    /\ \A k \in DOMAIN loop.runs : loop.runs[k] = 1

\* The components an entry of the vessels' log accounts for.
Accounted(i) ==
    log.ComponentsInStock[i] + log.ComponentsOnboard[i]
        + log.ComponentsInstalled[i]

\* C37: with a single vessel every entry of the log accounts for all
\* components: stock, deck and installed components add up to the level
\* the port started with, which the first entry records as its stock.
EntriesAccountForAll ==
    Cardinality(Procs) = 1 /\ Entries > 0
        => /\ log.ComponentsOnboard[1] = 0
           /\ log.ComponentsInstalled[1] = 0
           /\ \A i \in 1..Entries : Accounted(i) = log.ComponentsInStock[1]

\* The single vessel has logged on a later trip, with components on deck
\* and components installed.
EntriesAccountForAllWitness ==
    /\ Cardinality(Procs) = 1
    /\ \E i \in 1..Entries :
          log.ComponentsOnboard[i] > 0 /\ log.ComponentsInstalled[i] > 0

\* The same whatever the number of vessels.
EntriesAccountForAllVessels ==
    Entries > 0
        => \A i \in 1..Entries : Accounted(i) = log.ComponentsInStock[1]

\* C38: start_simulation starts processes only for the vessels created for
\* the simulation object it is called on, and the registry is empty once
\* it has returned.
StartsOwnVesselsOnly ==
    [][\A sim \in Simulations :
         sim \in run'.ran \ run.ran
            => /\ \A v \in run'.started[sim] : v.sim = sim
               /\ run'.instances = << >>]_vars

\* start_simulation leaves the registry empty.
RegistryEmptied ==
    [][\A sim \in Simulations :
         sim \in run'.ran \ run.ran => run'.instances = << >>]_vars

\* A simulation object whose vessels were the only ones on the list starts
\* exactly its own vessels.
StartsOwnWhenAlone ==
    [][\A sim \in Simulations :
         sim \in run'.ran \ run.ran
             /\ (\A v \in Range(run.instances) : v.sim = sim)
            => run'.started[sim] = {v \in Range(run.instances) : v.sim = sim}
       ]_vars

\* The vessels of a simulation object whose entities were created are
\* started by its start_simulation.
OwnVesselsStarted ==
    \A sim \in run.ran : \E v \in run.started[sim] : v.sim = sim


(* ---------------- C39: digital-twin Activity bookkeeping --------------- *)
\* Activity a enters installation_process and books an amount in this step.
Schedules(a) == a \in Twins /\ pc[a] # "t_mover" /\ pc'[a] = "t_mover"

\* The containers as the entering process sees them: because a step is one
\* resumption, they are the ones the step leaves behind, save that the
\* unload that ends the previous cycle has just been completed.
FreeOf(c) == cap[c] - level'[c]

\* C39: total_requested of origin and destination never exceeds the
\* capacity of the container; every amount scheduled is > 0 and at most the
\* mover's free capacity, the origin's level and the destination's free
\* space at the moment of scheduling; and a cycle is entered only when the
\* activity's condition evaluates to true at that moment.
TwinBookkeeping ==
    [][/\ run.pc = "twin" =>
            \A c \in {T_ORIGIN, T_DEST} : run'.total_requested[c] <= cap[c]
       /\ \A a \in DOMAIN pc :
            (run.pc = "twin" /\ Schedules(a)) =>
                /\ act'[a].amount > 0
                /\ act'[a].amount <= FreeOf(T_MOVER)
                /\ act'[a].amount <= level'[T_ORIGIN]
                /\ act'[a].amount <= FreeOf(T_DEST)
                /\ Condition(a, [level |-> level'])
                /\ run'.total_requested[T_ORIGIN]
                     = run.total_requested[T_ORIGIN] + act'[a].amount
                /\ run'.total_requested[T_DEST]
                     = run.total_requested[T_DEST] + act'[a].amount]_vars

\* An activity has entered its second cycle after an unload, and the
\* amounts booked so far fill the origin's capacity.
TwinBookkeepingWitness ==
    /\ run.pc = "twin"
    /\ run.total_requested[T_ORIGIN] = cap[T_ORIGIN]
    /\ \E a \in DOMAIN act :
          /\ act[a].cycles >= 2 /\ pc[a] = "t_mover" /\ act[a].amount > 0
          /\ Cardinality(DOMAIN act) = 2
====
